---- MODULE Spec2Model ----
(***************************************************************************)
(* A model of the demo agents of the repository:                           *)
(*   - scripts/custom_agents/filesystem_agent.py: the file organizer's     *)
(*     tools (scan_folder, organize_files, get_folder_summary) and         *)
(*     run_filesystem_agent;                                               *)
(*   - demos/customer-service: the order and refund tools (tools.py), the  *)
(*     abuse guardrail (agents_def.py) and the chat handler (app.py);      *)
(*   - scripts/custom_agents: the tools of the data dashboard, of the      *)
(*     content pipeline and of the research agent.                         *)
(* The language model is the environment: inside a run it may issue any    *)
(* call of the agent's tools with any arguments.                           *)
(*                                                                         *)
(* File names are sequences of one-character strings, so that suffix,      *)
(* stem and lower() are computed as pathlib and str compute them.  A path  *)
(* is a sequence of names relative to the organized folder.                *)
(***************************************************************************)
EXTENDS Integers, Sequences, FiniteSets, TLC

VARIABLES
    fs,        \* the organized folder: path -> node, for every existing path
    clock,     \* datetime.now(), in seconds
    run,       \* run_filesystem_agent: "idle", "dry" (execute=False), "execute"
    runFs,     \* the folder as it was when the current run started
    fsCall,    \* the last tool call of the file organizer and its result
    db,        \* ORDERS_DB: order id -> order
    ctx,       \* the CustomerContext of the session
    csCall,    \* the last customer-service tool call and its result
    eligible,  \* the orders calculate_refund has found eligible so far
    mPc,       \* on_message: "idle", "streaming", "done" (returned), "raised"
    guard,     \* the input guardrail: idle, running, or what it returned
    received,  \* the events stream_events() has yielded in this call
    msg,       \* the response message of this call, or None
    toolSteps, \* tool_steps: call id -> step
    ui,        \* what this call has sent to the chat, in order
    exc,       \* the exception stream_events() raised: "none", a name
    disk,      \* the paths of the files that exist outside the organized folder
    frame,     \* what the data file holds: column -> its values, row by row
    tlCall,    \* the last call of a data, content or research tool
    tlCalls    \* how many of these calls were made

fsVars == <<fs, clock, run, runFs, fsCall>>

csVars == <<db, ctx, csCall, eligible>>

msgVars == <<mPc, guard, received, msg, toolSteps, ui, exc>>

tlVars == <<disk, frame, tlCall, tlCalls>>

vars ==
    <<fs, clock, run, runFs, fsCall, db, ctx, csCall, eligible,
      mPc, guard, received, msg, toolSteps, ui, exc,
      disk, frame, tlCall, tlCalls>>

(***************************************************************************)
(* Bounds of the model.                                                    *)
(***************************************************************************)
\* The most entries the folder holds when the program starts.
MaxEntries == 3
\* The most events the stream of one message yields.
MaxEvents == 3
\* The last second the clock reaches.
MaxClock == 1

(***************************************************************************)
(* Strings.                                                                *)
(***************************************************************************)
UpperCase ==
    <<"A", "B", "C", "D", "E", "F", "G", "H", "I", "J", "K", "L", "M",
      "N", "O", "P", "Q", "R", "S", "T", "U", "V", "W", "X", "Y", "Z">>

LowerCase ==
    <<"a", "b", "c", "d", "e", "f", "g", "h", "i", "j", "k", "l", "m",
      "n", "o", "p", "q", "r", "s", "t", "u", "v", "w", "x", "y", "z">>

\* str.lower() on one character.
LowerChar(c) ==
    IF \E i \in 1..Len(UpperCase) : UpperCase[i] = c
    THEN LowerCase[CHOOSE i \in 1..Len(UpperCase) : UpperCase[i] = c]
    ELSE c

\* A comparison of extensions that minds the case: no lower().
StrLowerNone(s) == s

\* str.lower()
StrLower(s) == [i \in 1..Len(s) |-> LowerChar(s[i])]

\* str.rfind('.'), 1-based; 0 when there is no dot.
RFindDot(s) ==
    IF \E i \in 1..Len(s) : s[i] = "."
    THEN CHOOSE i \in 1..Len(s) :
            s[i] = "." /\ \A j \in (i + 1)..Len(s) : s[j] # "."
    ELSE 0

\* PurePath.suffix: the last dot and what follows it, unless the dot is the
\* first or the last character of the name.
Suffix(name) ==
    LET i == RFindDot(name)
    IN  IF 1 < i /\ i < Len(name) THEN SubSeq(name, i, Len(name)) ELSE <<>>

\* PurePath.stem
Stem(name) ==
    LET i == RFindDot(name)
    IN  IF 1 < i /\ i < Len(name) THEN SubSeq(name, 1, i - 1) ELSE name

\* str.startswith(".")
IsHidden(name) == Len(name) > 0 /\ name[1] = "."

Digits == <<"0", "1", "2", "3", "4", "5", "6", "7", "8", "9">>

\* datetime.now().strftime("%Y%m%d_%H%M%S"), scaled down to the seconds
\* field "%S": two digits, one string per second.
TsFormat(t) == <<Digits[((t \div 10) % 10) + 1], Digits[(t % 10) + 1]>>

(***************************************************************************)
(* The category table: extension -> folder, the folder as the components   *)
(* of its path.                                                            *)
(***************************************************************************)
FILE_CATEGORIES ==
    <<
      <<<<".", "p", "d", "f">>, <<<<"D", "o", "c", "u", "m", "e", "n", "t", "s">>, <<"P", "D", "F", "s">>>>>>,
      <<<<".", "d", "o", "c">>, <<<<"D", "o", "c", "u", "m", "e", "n", "t", "s">>, <<"W", "o", "r", "d">>>>>>,
      <<<<".", "d", "o", "c", "x">>, <<<<"D", "o", "c", "u", "m", "e", "n", "t", "s">>, <<"W", "o", "r", "d">>>>>>,
      <<<<".", "t", "x", "t">>, <<<<"D", "o", "c", "u", "m", "e", "n", "t", "s">>, <<"T", "e", "x", "t">>>>>>,
      <<<<".", "r", "t", "f">>, <<<<"D", "o", "c", "u", "m", "e", "n", "t", "s">>, <<"T", "e", "x", "t">>>>>>,
      <<<<".", "m", "d">>, <<<<"D", "o", "c", "u", "m", "e", "n", "t", "s">>, <<"M", "a", "r", "k", "d", "o", "w", "n">>>>>>,
      <<<<".", "x", "l", "s">>, <<<<"S", "p", "r", "e", "a", "d", "s", "h", "e", "e", "t", "s">>>>>>,
      <<<<".", "x", "l", "s", "x">>, <<<<"S", "p", "r", "e", "a", "d", "s", "h", "e", "e", "t", "s">>>>>>,
      <<<<".", "c", "s", "v">>, <<<<"S", "p", "r", "e", "a", "d", "s", "h", "e", "e", "t", "s">>>>>>,
      <<<<".", "j", "p", "g">>, <<<<"I", "m", "a", "g", "e", "s">>>>>>,
      <<<<".", "j", "p", "e", "g">>, <<<<"I", "m", "a", "g", "e", "s">>>>>>,
      <<<<".", "p", "n", "g">>, <<<<"I", "m", "a", "g", "e", "s">>>>>>,
      <<<<".", "g", "i", "f">>, <<<<"I", "m", "a", "g", "e", "s">>>>>>,
      <<<<".", "s", "v", "g">>, <<<<"I", "m", "a", "g", "e", "s">>>>>>,
      <<<<".", "w", "e", "b", "p">>, <<<<"I", "m", "a", "g", "e", "s">>>>>>,
      <<<<".", "h", "e", "i", "c">>, <<<<"I", "m", "a", "g", "e", "s">>>>>>,
      <<<<".", "m", "p", "4">>, <<<<"V", "i", "d", "e", "o", "s">>>>>>,
      <<<<".", "m", "o", "v">>, <<<<"V", "i", "d", "e", "o", "s">>>>>>,
      <<<<".", "a", "v", "i">>, <<<<"V", "i", "d", "e", "o", "s">>>>>>,
      <<<<".", "m", "k", "v">>, <<<<"V", "i", "d", "e", "o", "s">>>>>>,
      <<<<".", "w", "e", "b", "m">>, <<<<"V", "i", "d", "e", "o", "s">>>>>>,
      <<<<".", "m", "p", "3">>, <<<<"A", "u", "d", "i", "o">>>>>>,
      <<<<".", "w", "a", "v">>, <<<<"A", "u", "d", "i", "o">>>>>>,
      <<<<".", "f", "l", "a", "c">>, <<<<"A", "u", "d", "i", "o">>>>>>,
      <<<<".", "m", "4", "a">>, <<<<"A", "u", "d", "i", "o">>>>>>,
      <<<<".", "a", "a", "c">>, <<<<"A", "u", "d", "i", "o">>>>>>,
      <<<<".", "z", "i", "p">>, <<<<"A", "r", "c", "h", "i", "v", "e", "s">>>>>>,
      <<<<".", "r", "a", "r">>, <<<<"A", "r", "c", "h", "i", "v", "e", "s">>>>>>,
      <<<<".", "7", "z">>, <<<<"A", "r", "c", "h", "i", "v", "e", "s">>>>>>,
      <<<<".", "t", "a", "r">>, <<<<"A", "r", "c", "h", "i", "v", "e", "s">>>>>>,
      <<<<".", "g", "z">>, <<<<"A", "r", "c", "h", "i", "v", "e", "s">>>>>>,
      <<<<".", "p", "y">>, <<<<"C", "o", "d", "e">>, <<"P", "y", "t", "h", "o", "n">>>>>>,
      <<<<".", "j", "s">>, <<<<"C", "o", "d", "e">>, <<"J", "a", "v", "a", "S", "c", "r", "i", "p", "t">>>>>>,
      <<<<".", "t", "s">>, <<<<"C", "o", "d", "e">>, <<"T", "y", "p", "e", "S", "c", "r", "i", "p", "t">>>>>>,
      <<<<".", "h", "t", "m", "l">>, <<<<"C", "o", "d", "e">>, <<"W", "e", "b">>>>>>,
      <<<<".", "c", "s", "s">>, <<<<"C", "o", "d", "e">>, <<"W", "e", "b">>>>>>,
      <<<<".", "j", "s", "o", "n">>, <<<<"C", "o", "d", "e">>, <<"D", "a", "t", "a">>>>>>,
      <<<<".", "y", "a", "m", "l">>, <<<<"C", "o", "d", "e">>, <<"D", "a", "t", "a">>>>>>,
      <<<<".", "y", "m", "l">>, <<<<"C", "o", "d", "e">>, <<"D", "a", "t", "a">>>>>>,
      <<<<".", "d", "m", "g">>, <<<<"I", "n", "s", "t", "a", "l", "l", "e", "r", "s">>>>>>,
      <<<<".", "p", "k", "g">>, <<<<"I", "n", "s", "t", "a", "l", "l", "e", "r", "s">>>>>>,
      <<<<".", "e", "x", "e">>, <<<<"I", "n", "s", "t", "a", "l", "l", "e", "r", "s">>>>>>,
      <<<<".", "m", "s", "i">>, <<<<"I", "n", "s", "t", "a", "l", "l", "e", "r", "s">>>>>>,
      <<<<".", "a", "p", "p">>, <<<<"A", "p", "p", "l", "i", "c", "a", "t", "i", "o", "n", "s">>>>>>
    >>

OtherCategory == <<<<"O", "t", "h", "e", "r">>>>

\* FILE_CATEGORIES.get(extension, "Other")
CategoryOf(extension) ==
    IF \E i \in 1..Len(FILE_CATEGORIES) : FILE_CATEGORIES[i][1] = extension
    THEN FILE_CATEGORIES[
            CHOOSE i \in 1..Len(FILE_CATEGORIES) :
                FILE_CATEGORIES[i][1] = extension][2]
    ELSE OtherCategory

(***************************************************************************)
(* The file system under the folder.                                       *)
(***************************************************************************)
DirNode == [kind |-> "dir", content |-> 0]

FileNode(c) == [kind |-> "file", content |-> c]

Exists(f, p) == p \in DOMAIN f

IsDir(f, p) == p \in DOMAIN f /\ f[p].kind = "dir"

\* folder.iterdir(): the names of the entries of the folder itself.
IterDir(f) == {p[1] : p \in {q \in DOMAIN f : Len(q) = 1}}

\* The contents of the files that exist anywhere under the folder.
Contents(f) == {f[p].content : p \in {q \in DOMAIN f : f[q].kind = "file"}}

Prefixes(p) == {SubSeq(p, 1, k) : k \in 1..Len(p)}

\* Path.mkdir(parents=True, exist_ok=True): raises when the path or one of
\* its parents is a file, and else creates what is missing.
Mkdir(f, p) ==
    IF \E q \in Prefixes(p) : Exists(f, q) /\ ~IsDir(f, q)
    THEN [ok |-> FALSE, fs |-> f]
    ELSE [ok |-> TRUE,
          fs |-> [q \in DOMAIN f \cup Prefixes(p) |->
                    IF q \in DOMAIN f THEN f[q] ELSE DirNode]]

\* shutil.move(src, dst) of a file: into dst when dst is a directory (an
\* error when the name is taken there), and else os.rename, which replaces
\* a file that is at dst.
Move(f, src, dst) ==
    LET real_dst == IF IsDir(f, dst) THEN Append(dst, src[Len(src)]) ELSE dst
    IN  IF IsDir(f, dst) /\ Exists(f, real_dst)
        THEN [ok |-> FALSE, fs |-> f]
        ELSE [ok |-> TRUE,
              fs |-> [q \in (DOMAIN f \ {src}) \cup {real_dst} |->
                        IF q = real_dst THEN f[src] ELSE f[q]]]

(***************************************************************************)
(* The entries the folder may hold when the program starts, each file with *)
(* a content of its own, and the files a category folder may already hold. *)
(* size and mtime of a file play no part in what the tools move and are    *)
(* left out.                                                               *)
(***************************************************************************)
N_a_pdf == <<"a", ".", "p", "d", "f">>

N_a_PDF == <<"a", ".", "P", "D", "F">>

N_env == <<".", "e", "n", "v">>

N_Other == <<"O", "t", "h", "e", "r">>

N_old == <<"o", "l", "d">>

PdfFolder == CategoryOf(<<".", "p", "d", "f">>)

TopCandidates ==
    { <<<<N_a_pdf>>, FileNode(1)>>,
      <<<<N_a_PDF>>, FileNode(2)>>,
      <<<<N_env>>, FileNode(3)>>,
      <<<<N_Other>>, FileNode(5)>>,
      <<<<N_old>>, DirNode>> }

DestCandidates ==
    { <<Append(PdfFolder, N_a_pdf), FileNode(6)>>,
      <<Append(PdfFolder, N_a_PDF), FileNode(7)>> }

\* The file system that holds the entries T of the folder and the files D
\* of category folders (with the folders they are in).
MakeFs(T, D) ==
    LET files == T \cup D
        dirs  == UNION {Prefixes(SubSeq(e[1], 1, Len(e[1]) - 1)) : e \in D}
    IN  [p \in {e[1] : e \in files} \cup dirs |->
            IF \E e \in files : e[1] = p
            THEN (CHOOSE e \in files : e[1] = p)[2]
            ELSE DirNode]

InitialFs ==
    {MakeFs(T, D) : T \in {X \in SUBSET TopCandidates : Cardinality(X) <= MaxEntries},
                    D \in SUBSET DestCandidates}

(***************************************************************************)
(* organize_files                                                          *)
(***************************************************************************)
\* One sequence that lists the members of S, each once.
SeqOf(S) ==
    CHOOSE o \in [1..Cardinality(S) -> S] :
        \A i, j \in 1..Cardinality(S) : o[i] = o[j] => i = j

\* The orders in which iterdir() may list the entries of the folder. Every
\* tool skips a directory wherever it is listed, so of the orders that
\* differ only in where the directories stand, the one that lists them
\* first stands for all.
Orders(f) ==
    LET dirs  == {n \in IterDir(f) : IsDir(f, <<n>>)}
        files == IterDir(f) \ dirs
    IN  {SeqOf(dirs) \o o : o \in
            {x \in [1..Cardinality(files) -> files] :
                \A i, j \in 1..Cardinality(files) : x[i] = x[j] => i = j}}

\* The destination of a file: its category folder and its own name, or,
\* when that name is taken, its stem, a timestamp and its extension.
DestPath(f, name, now) ==
    LET extension   == StrLower(Suffix(name))
        dest_folder == CategoryOf(extension)
        dest_path   == Append(dest_folder, name)
    IN  IF Exists(f, dest_path)
        THEN Append(dest_folder, Stem(name) \o <<"_">> \o TsFormat(now) \o extension)
        ELSE dest_path

\* The loop body with the category folder created before dry_run is looked
\* at.
OrganizeItemMkdirFirst(acc, name, dry_run, now) ==
    LET item      == <<name>>
        category  == CategoryOf(StrLower(Suffix(name)))
        dest_path == DestPath(acc.fs, name, now)
        mk        == Mkdir(acc.fs, category)
        mv        == Move(mk.fs, item, dest_path)
    IN  IF IsDir(acc.fs, item) THEN acc
        ELSE IF IsHidden(name)
        THEN [acc EXCEPT
                !.actions = Append(@, [file_name |-> name, action |-> "skipped",
                                       reason |-> "Hidden file"]),
                !.skipped_count = @ + 1]
        ELSE IF ~mk.ok
        THEN [acc EXCEPT
                !.actions = Append(@, [file_name |-> name, action |-> "error",
                                       source |-> item, reason |-> "mkdir"]),
                !.skipped_count = @ + 1]
        ELSE IF dry_run
        THEN [acc EXCEPT
                !.fs = mk.fs,
                !.actions = Append(@, [file_name |-> name, action |-> "would_move",
                                       source |-> item, destination |-> dest_path,
                                       reason |-> category]),
                !.moved_count = @ + 1]
        ELSE IF ~mv.ok
        THEN [acc EXCEPT
                !.fs = mk.fs,
                !.actions = Append(@, [file_name |-> name, action |-> "error",
                                       source |-> item, reason |-> "move"]),
                !.skipped_count = @ + 1]
        ELSE [acc EXCEPT
                !.fs = mv.fs,
                !.actions = Append(@, [file_name |-> name, action |-> "moved",
                                       source |-> item, destination |-> dest_path,
                                       reason |-> category]),
                !.moved_count = @ + 1]

\* One pass of the loop body of organize_files on entry `name`, at second
\* `now`. acc: the file system and the report so far.
OrganizeItem(acc, name, dry_run, now) ==
    LET item      == <<name>>
        category  == CategoryOf(StrLower(Suffix(name)))
        dest_path == DestPath(acc.fs, name, now)
        mk        == Mkdir(acc.fs, category)
        mv        == Move(mk.fs, item, dest_path)
    IN  IF IsDir(acc.fs, item) THEN acc
        ELSE IF IsHidden(name)
        THEN [acc EXCEPT
                !.actions = Append(@, [file_name |-> name, action |-> "skipped",
                                       reason |-> "Hidden file"]),
                !.skipped_count = @ + 1]
        ELSE IF dry_run
        THEN [acc EXCEPT
                !.actions = Append(@, [file_name |-> name, action |-> "would_move",
                                       source |-> item, destination |-> dest_path,
                                       reason |-> category]),
                !.moved_count = @ + 1]
        ELSE IF ~mk.ok
        THEN [acc EXCEPT
                !.actions = Append(@, [file_name |-> name, action |-> "error",
                                       source |-> item, reason |-> "mkdir"]),
                !.skipped_count = @ + 1]
        ELSE IF ~mv.ok
        THEN [acc EXCEPT
                !.fs = mk.fs,
                !.actions = Append(@, [file_name |-> name, action |-> "error",
                                       source |-> item, reason |-> "move"]),
                !.skipped_count = @ + 1]
        ELSE [acc EXCEPT
                !.fs = mv.fs,
                !.actions = Append(@, [file_name |-> name, action |-> "moved",
                                       source |-> item, destination |-> dest_path,
                                       reason |-> category]),
                !.moved_count = @ + 1]

\* Whether the loop body reads the clock for entry `name`: it does when
\* the name is taken in the category folder.
ReadsClock(f, name) ==
    /\ ~IsDir(f, <<name>>)
    /\ ~IsHidden(name)
    /\ Exists(f, Append(CategoryOf(StrLower(Suffix(name))), name))

\* What datetime.now() may return after it returned `last`: the same second
\* or the next. Only organize_files reads the clock, so the time that
\* passes anywhere else shows at the next read.
Now(last) == {t \in {last, last + 1} : t <= MaxClock}

\* The outcomes of one pass of the loop body, one for each second the
\* clock may show when it is read.
OrganizeStep(acc, name, dry_run) ==
    {[OrganizeItem(acc, name, dry_run, t) EXCEPT !.clock = t] :
        t \in IF ReadsClock(acc.fs, name) THEN Now(acc.clock) ELSE {acc.clock}}

\* The outcomes of the loop of organize_files from entry i of `order` on.
RECURSIVE OrganizeLoop(_, _, _, _)
OrganizeLoop(accs, order, i, dry_run) ==
    IF i > Len(order) THEN accs
    ELSE OrganizeLoop(
            UNION {OrganizeStep(acc, order[i], dry_run) : acc \in accs},
            order, i + 1, dry_run)

\* The report organize_files returns.
OrganizeReport(acc, dry_run) ==
    [mode |-> IF dry_run THEN "DRY RUN" ELSE "EXECUTED",
     total_files_processed |-> acc.moved_count + acc.skipped_count,
     files_organized |-> acc.moved_count,
     files_skipped |-> acc.skipped_count,
     actions |-> acc.actions]

\* organize_files(source_folder, dry_run), called by the model during a
\* run. folder_ok: source_folder names the folder (and else a path that is
\* no directory).
OrganizeFiles(folder_ok, dry_run) ==
    /\ run # "idle"
    /\ IF ~folder_ok
       THEN /\ fsCall' = [op |-> "organize_files", dry_run |-> dry_run, pre |-> fs,
                          result |-> [error |-> "Invalid folder"]]
            /\ UNCHANGED <<fs, clock>>
       ELSE \E order \in Orders(fs) :
            \E acc \in OrganizeLoop(
                          {[fs |-> fs, clock |-> clock, actions |-> <<>>,
                            moved_count |-> 0, skipped_count |-> 0]},
                          order, 1, dry_run) :
                /\ fs' = acc.fs
                /\ clock' = acc.clock
                /\ fsCall' = [op |-> "organize_files", dry_run |-> dry_run,
                              pre |-> fs, result |-> OrganizeReport(acc, dry_run)]
    /\ UNCHANGED <<run, runFs>>
    /\ UNCHANGED csVars
    /\ UNCHANGED msgVars
    /\ UNCHANGED tlVars

(***************************************************************************)
(* scan_folder and get_folder_summary                                      *)
(***************************************************************************)
RECURSIVE ScanLoop(_, _, _, _)
ScanLoop(f, order, i, include_hidden) ==
    IF i > Len(order) THEN <<>>
    ELSE LET name == order[i]
             rest == ScanLoop(f, order, i + 1, include_hidden)
         IN  IF IsDir(f, <<name>>) THEN rest
             ELSE IF ~include_hidden /\ IsHidden(name) THEN rest
             ELSE <<[name |-> name,
                     extension |-> StrLower(Suffix(name)),
                     category |-> CategoryOf(StrLower(Suffix(name)))]>> \o rest

ScanFolder(folder_ok, include_hidden) ==
    /\ run # "idle"
    /\ IF ~folder_ok
       THEN fsCall' = [op |-> "scan_folder", pre |-> fs,
                       result |-> [error |-> "Folder does not exist"]]
       ELSE \E order \in Orders(fs) :
              LET files_info == ScanLoop(fs, order, 1, include_hidden)
              IN  fsCall' = [op |-> "scan_folder", pre |-> fs,
                             result |-> [total_files |-> Len(files_info),
                                         files |-> files_info]]
    /\ UNCHANGED <<fs, clock, run, runFs>>
    /\ UNCHANGED csVars
    /\ UNCHANGED msgVars
    /\ UNCHANGED tlVars

\* The files get_folder_summary counts: neither directories nor hidden.
SummaryFiles(f) == {n \in IterDir(f) : ~IsDir(f, <<n>>) /\ ~IsHidden(n)}

GetFolderSummary(folder_ok) ==
    /\ run # "idle"
    /\ IF ~folder_ok
       THEN fsCall' = [op |-> "get_folder_summary", pre |-> fs,
                       result |-> [error |-> "Invalid folder"]]
       ELSE LET cats == {CategoryOf(StrLower(Suffix(n))) : n \in SummaryFiles(fs)}
            IN  fsCall' =
                  [op |-> "get_folder_summary", pre |-> fs,
                   result |-> [categories |->
                     [c \in cats |->
                        [count |-> Cardinality(
                            {n \in SummaryFiles(fs) :
                                CategoryOf(StrLower(Suffix(n))) = c})]]]]
    /\ UNCHANGED <<fs, clock, run, runFs>>
    /\ UNCHANGED csVars
    /\ UNCHANGED msgVars
    /\ UNCHANGED tlVars

(***************************************************************************)
(* run_filesystem_agent                                                    *)
(***************************************************************************)
\* run_filesystem_agent(folder_path, execute): the query is built and the
\* run starts. execute only chooses the words of the query.
RunFilesystemAgent(execute) ==
    /\ run = "idle"
    /\ run' = IF execute THEN "execute" ELSE "dry"
    /\ runFs' = fs
    /\ UNCHANGED <<fs, clock, fsCall>>
    /\ UNCHANGED csVars
    /\ UNCHANGED msgVars
    /\ UNCHANGED tlVars

\* Runner.run_sync returns; the final output is returned.
FinishRun ==
    /\ run # "idle"
    /\ run' = "idle"
    /\ UNCHANGED <<fs, clock, runFs, fsCall>>
    /\ UNCHANGED csVars
    /\ UNCHANGED msgVars
    /\ UNCHANGED tlVars

\* str.upper() on one character and on a string: to write file names.
UpperChar(c) ==
    IF \E i \in 1..Len(LowerCase) : LowerCase[i] = c
    THEN UpperCase[CHOOSE i \in 1..Len(LowerCase) : LowerCase[i] = c]
    ELSE c

StrUpper(s) == [i \in 1..Len(s) |-> UpperChar(s[i])]

\* The file names the category of which is computed: stem "a" with every
\* extension of the table in lower case, in upper case and capitalised,
\* and names with no, an unknown, an empty or more than one extension.
CatNames ==
    UNION {{<<"a">> \o FILE_CATEGORIES[i][1],
            <<"a">> \o StrUpper(FILE_CATEGORIES[i][1]),
            <<"a", ".">> \o StrUpper(SubSeq(FILE_CATEGORIES[i][1], 2, 2))
                \o SubSeq(FILE_CATEGORIES[i][1], 3, Len(FILE_CATEGORIES[i][1]))} :
           i \in 1..Len(FILE_CATEGORIES)} \cup
    { <<"a">>,
      <<"a", ".">>,
      <<"a", ".", "x", "y", "z">>,
      <<"a", ".", "p", "d", "f", ".", "b", "a", "k">>,
      <<"a", ".", "t", "a", "r", ".", "g", "z">>,
      <<"p", "d", "f">>,
      <<".", "p", "d", "f">>,
      <<".", "a", ".", "P", "N", "G">> }

\* A folder that holds one file.
InitCat ==
    /\ fs \in {MakeFs({<<<<n>>, FileNode(1)>>}, {}) : n \in CatNames}
    /\ clock = 0
    /\ run = "idle"
    /\ runFs = fs
    /\ fsCall = [op |-> "none"]

\* The file organizer has not been started.
IdleFS ==
    /\ fs = MakeFs({}, {})
    /\ clock = 0
    /\ run = "idle"
    /\ runFs = fs
    /\ fsCall = [op |-> "none"]

InitFS ==
    /\ fs \in InitialFs
    /\ clock = 0
    /\ run = "idle"
    /\ runFs = fs
    /\ fsCall = [op |-> "none"]

NextFS ==
    \/ \E execute \in BOOLEAN : RunFilesystemAgent(execute)
    \/ \E folder_ok \in BOOLEAN, include_hidden \in BOOLEAN :
          ScanFolder(folder_ok, include_hidden)
    \/ \E folder_ok \in BOOLEAN, dry_run \in BOOLEAN :
          OrganizeFiles(folder_ok, dry_run)
    \/ \E folder_ok \in BOOLEAN : GetFolderSummary(folder_ok)
    \/ FinishRun

(***************************************************************************)
(* The customer service demo: config.py, models.py and tools.py.  A price  *)
(* is a number of cents.  A tool's return value, an f-string, is the       *)
(* record of the text it is built from and of the values put into it.      *)
(***************************************************************************)
\* ORDERS_DB as config.py sets it. eta and delivered_date are days from
\* today.
ORDERS_DB ==
    ("ORD-001" :> [customer_id |-> "CUST-123", item |-> "Wireless Headphones",
                   price |-> 7999, status |-> "shipped",
                   tracking |-> "1Z999AA10123456784", eta |-> "today+2"]) @@
    ("ORD-002" :> [customer_id |-> "CUST-123", item |-> "Phone Case",
                   price |-> 1999, status |-> "delivered",
                   tracking |-> "1Z999AA10123456785",
                   delivered_date |-> "today-3"]) @@
    ("ORD-003" :> [customer_id |-> "CUST-456", item |-> "USB Cable",
                   price |-> 1299, status |-> "processing",
                   tracking |-> "None", eta |-> "Pending shipment"])

CUSTOMERS_DB ==
    ("CUST-123" :> [name |-> "Alice Johnson", is_premium |-> TRUE]) @@
    ("CUST-456" :> [name |-> "Bob Smith", is_premium |-> FALSE])

\* get_customer_context(customer_id)
GetCustomerContext(customer_id) ==
    [customer_id |-> customer_id,
     customer_name |-> CUSTOMERS_DB[customer_id].name,
     is_premium |-> CUSTOMERS_DB[customer_id].is_premium]

\* The price above which a delivered order's refund needs approval: $50.
ApprovalThreshold == 5000

\* The prices, statuses and owners an order of the database may have.
Prices == {1299, 1999, 5000, 5001, 7999}

Statuses == {"processing", "shipped", "delivered", "cancelled"}

\* The databases the tools are run on: ORDERS_DB, and ORDERS_DB with the
\* owner, price and status of one order changed.
OrderDbs ==
    {ORDERS_DB} \cup
    {[ORDERS_DB EXCEPT ![o] = [@ EXCEPT !.customer_id = c, !.price = p,
                                        !.status = s]] :
        o \in DOMAIN ORDERS_DB, c \in DOMAIN CUSTOMERS_DB,
        p \in Prices, s \in Statuses}

\* The order ids and reasons the model passes to a tool.
OrderIdArgs == DOMAIN ORDERS_DB \cup {"ORD-999"}

ReasonArgs == {"arrived damaged"}

\* dict.get(key, default)
Get(d, key, default) == IF key \in DOMAIN d THEN d[key] ELSE default

\* f"${price:.2f}": dollars and cents.
Fmt2f(price) == <<price \div 100, price % 100>>

\* str.upper() of a status.
StatusUpper(status) ==
    CASE status = "processing" -> "PROCESSING"
      [] status = "shipped"    -> "SHIPPED"
      [] status = "delivered"  -> "DELIVERED"
      [] status = "cancelled"  -> "CANCELLED"

\* lookup_order without the check of the owner.
LookupOrderAnyOwner(d, c, order_id) ==
    IF order_id \notin DOMAIN d
    THEN [text |-> "Order not found", order_id |-> order_id]
    ELSE [text |-> "Order details", order_id |-> order_id,
          item |-> d[order_id].item,
          price |-> Fmt2f(d[order_id].price),
          status |-> StatusUpper(d[order_id].status),
          tracking |-> Get(d[order_id], "tracking", "Not yet available"),
          eta |-> Get(d[order_id], "eta",
                      Get(d[order_id], "delivered_date", "N/A"))]

\* lookup_order(wrapper, order_id) on database d with context c.
LookupOrderResult(d, c, order_id) ==
    IF order_id \notin DOMAIN d
    THEN [text |-> "Order not found", order_id |-> order_id]
    ELSE IF d[order_id].customer_id # c.customer_id
    THEN [text |-> "Order does not belong to your account",
          order_id |-> order_id]
    ELSE [text |-> "Order details", order_id |-> order_id,
          item |-> d[order_id].item,
          price |-> Fmt2f(d[order_id].price),
          status |-> StatusUpper(d[order_id].status),
          tracking |-> Get(d[order_id], "tracking", "Not yet available"),
          eta |-> Get(d[order_id], "eta",
                      Get(d[order_id], "delivered_date", "N/A"))]

\* ORDERS_DB.items() lists the orders as the dict was written.
OrderIdSeq == <<"ORD-001", "ORD-002", "ORD-003">>

RECURSIVE CustomerOrders(_, _, _)
CustomerOrders(d, c, i) ==
    IF i > Len(OrderIdSeq) THEN <<>>
    ELSE LET oid == OrderIdSeq[i]
         IN  (IF d[oid].customer_id = c.customer_id
              THEN <<[order_id |-> oid, item |-> d[oid].item,
                      price |-> Fmt2f(d[oid].price),
                      status |-> d[oid].status]>>
              ELSE <<>>) \o CustomerOrders(d, c, i + 1)

\* list_customer_orders(wrapper)
ListCustomerOrdersResult(d, c) ==
    LET customer_orders == CustomerOrders(d, c, 1)
    IN  IF customer_orders = <<>>
        THEN [text |-> "No orders found for your account"]
        ELSE [text |-> "Your orders", lines |-> customer_orders]

\* calculate_refund with the approval asked from $50 on.
CalculateRefundFrom50(d, c, order_id, reason) ==
    IF order_id \notin DOMAIN d
    THEN [text |-> "Order not found", order_id |-> order_id]
    ELSE IF d[order_id].customer_id # c.customer_id
    THEN [text |-> "This order does not belong to your account"]
    ELSE LET price  == d[order_id].price
             status == d[order_id].status
         IN  IF status = "processing"
             THEN [text |-> "can be cancelled for a full refund",
                   order_id |-> order_id, refund |-> Fmt2f(price),
                   reason |-> reason]
             ELSE IF status = "shipped"
             THEN IF c.is_premium
                  THEN [text |-> "Premium customer: Eligible for full refund upon return",
                        refund |-> Fmt2f(price), reason |-> reason]
                  ELSE [text |-> "Order in transit. Please wait for delivery",
                        reason |-> reason]
             ELSE IF status = "delivered"
             THEN [text |-> "Refund eligible", refund |-> Fmt2f(price),
                   approval_note |-> price >= ApprovalThreshold,
                   reason |-> reason]
             ELSE [text |-> "Unable to process refund", order_id |-> order_id]

\* calculate_refund with the premium flag left out of the shipped case.
CalculateRefundShippedAll(d, c, order_id, reason) ==
    IF order_id \notin DOMAIN d
    THEN [text |-> "Order not found", order_id |-> order_id]
    ELSE IF d[order_id].customer_id # c.customer_id
    THEN [text |-> "This order does not belong to your account"]
    ELSE LET price  == d[order_id].price
             status == d[order_id].status
         IN  IF status = "processing"
             THEN [text |-> "can be cancelled for a full refund",
                   order_id |-> order_id, refund |-> Fmt2f(price),
                   reason |-> reason]
             ELSE IF status = "shipped"
             THEN [text |-> "Premium customer: Eligible for full refund upon return",
                   refund |-> Fmt2f(price), reason |-> reason]
             ELSE IF status = "delivered"
             THEN [text |-> "Refund eligible", refund |-> Fmt2f(price),
                   approval_note |-> price > ApprovalThreshold,
                   reason |-> reason]
             ELSE [text |-> "Unable to process refund", order_id |-> order_id]

\* calculate_refund(wrapper, order_id, reason)
CalculateRefundResult(d, c, order_id, reason) ==
    IF order_id \notin DOMAIN d
    THEN [text |-> "Order not found", order_id |-> order_id]
    ELSE IF d[order_id].customer_id # c.customer_id
    THEN [text |-> "This order does not belong to your account"]
    ELSE LET price  == d[order_id].price
             status == d[order_id].status
         IN  IF status = "processing"
             THEN [text |-> "can be cancelled for a full refund",
                   order_id |-> order_id, refund |-> Fmt2f(price),
                   reason |-> reason]
             ELSE IF status = "shipped"
             THEN IF c.is_premium
                  THEN [text |-> "Premium customer: Eligible for full refund upon return",
                        refund |-> Fmt2f(price), reason |-> reason]
                  ELSE [text |-> "Order in transit. Please wait for delivery",
                        reason |-> reason]
             ELSE IF status = "delivered"
             THEN [text |-> "Refund eligible", refund |-> Fmt2f(price),
                   approval_note |-> price > ApprovalThreshold,
                   reason |-> reason]
             ELSE [text |-> "Unable to process refund", order_id |-> order_id]

\* process_refund(wrapper, order_id)
ProcessRefundResult(d, c, order_id) ==
    IF order_id \notin DOMAIN d
    THEN [text |-> "Order not found", order_id |-> order_id]
    ELSE [text |-> "Refund processed successfully", order_id |-> order_id,
          amount |-> Fmt2f(d[order_id].price),
          customer_name |-> c.customer_name]

\* The texts with which calculate_refund grants a refund.
EligibleTexts ==
    {"can be cancelled for a full refund",
     "Premium customer: Eligible for full refund upon return",
     "Refund eligible"}

(***************************************************************************)
(* The tool calls the model may issue: the order specialist has            *)
(* lookup_order and list_customer_orders, the refund specialist            *)
(* calculate_refund, process_refund and lookup_order.                      *)
(***************************************************************************)
LookupOrder(order_id) ==
    /\ csCall' = [op |-> "lookup_order", order_id |-> order_id,
                  result |-> LookupOrderResult(db, ctx, order_id)]
    /\ UNCHANGED <<db, ctx, eligible>>
    /\ UNCHANGED fsVars
    /\ UNCHANGED msgVars
    /\ UNCHANGED tlVars

ListCustomerOrders ==
    /\ csCall' = [op |-> "list_customer_orders",
                  result |-> ListCustomerOrdersResult(db, ctx)]
    /\ UNCHANGED <<db, ctx, eligible>>
    /\ UNCHANGED fsVars
    /\ UNCHANGED msgVars
    /\ UNCHANGED tlVars

CalculateRefund(order_id, reason) ==
    LET result == CalculateRefundResult(db, ctx, order_id, reason)
    IN  /\ csCall' = [op |-> "calculate_refund", order_id |-> order_id,
                      result |-> result]
        /\ eligible' = IF result.text \in EligibleTexts
                       THEN eligible \cup {order_id}
                       ELSE eligible
        /\ UNCHANGED <<db, ctx>>
        /\ UNCHANGED fsVars
        /\ UNCHANGED msgVars
        /\ UNCHANGED tlVars

ProcessRefund(order_id) ==
    /\ csCall' = [op |-> "process_refund", order_id |-> order_id,
                  result |-> ProcessRefundResult(db, ctx, order_id)]
    /\ UNCHANGED <<db, ctx, eligible>>
    /\ UNCHANGED fsVars
    /\ UNCHANGED msgVars
    /\ UNCHANGED tlVars

\* The customer service demo has not been started.
IdleCS ==
    /\ db = ORDERS_DB
    /\ ctx = GetCustomerContext("CUST-123")
    /\ csCall = [op |-> "none"]
    /\ eligible = {}

InitCS ==
    /\ db \in OrderDbs
    /\ ctx \in {GetCustomerContext(c) : c \in DOMAIN CUSTOMERS_DB}
    /\ csCall = [op |-> "none"]
    /\ eligible = {}

NextCS ==
    \/ \E order_id \in OrderIdArgs : LookupOrder(order_id)
    \/ ListCustomerOrders
    \/ \E order_id \in OrderIdArgs, reason \in ReasonArgs :
          CalculateRefund(order_id, reason)
    \/ \E order_id \in OrderIdArgs : ProcessRefund(order_id)

(***************************************************************************)
(* The chat handler (app.py) and the abuse guardrail (agents_def.py).  The *)
(* framework is the environment: Runner.run_streamed starts the run and    *)
(* the input guardrail together, stream_events() yields the events of the  *)
(* run one by one, raises InputGuardrailTripwireTriggered once a guardrail *)
(* has returned with its tripwire set, and ends only after the guardrail   *)
(* has returned.                                                           *)
(***************************************************************************)
None == [none |-> TRUE]

\* The deltas, call ids and events a stream may carry. A call id "" is a
\* tool call that has none.
Deltas == {"a", "b"}

CallIds == {"call_1", ""}

ToolCallItem(call_id) ==
    [type |-> "run_item_stream_event",
     item |-> [type |-> "tool_call_item", name |-> "refund_specialist",
               call_id |-> call_id, arguments |-> "{}"]]

ToolCallOutputItem(call_id) ==
    [type |-> "run_item_stream_event",
     item |-> [type |-> "tool_call_output_item", call_id |-> call_id,
               output |-> "done"]]

TextDelta(d) ==
    [type |-> "raw_response_event",
     data |-> [type |-> "response.output_text.delta", delta |-> d]]

StreamEvents ==
    {ToolCallItem(c) : c \in CallIds} \cup
    {ToolCallOutputItem(c) : c \in CallIds} \cup
    {TextDelta(d) : d \in Deltas} \cup
    {[type |-> "raw_response_event", data |-> [type |-> "response.created"]],
     [type |-> "run_item_stream_event", item |-> [type |-> "message_output_item"]],
     [type |-> "agent_updated_stream_event"]}

\* isinstance(event.data, ResponseTextDeltaEvent)
IsTextDelta(event) ==
    /\ event.type = "raw_response_event"
    /\ event.data.type = "response.output_text.delta"

\* abuse_guardrail with the tripwire set for a message that is not abusive.
AbuseGuardrailNegated(check) ==
    [state |-> "returned", output_info |-> check,
     tripwire_triggered |-> ~check.is_abusive]

\* abuse_guardrail: what it returns for the AbuseCheck of the detector.
AbuseGuardrail(check) ==
    [state |-> "returned", output_info |-> check,
     tripwire_triggered |-> check.is_abusive]

GuardrailReturned == guard.state = "returned"

Tripped == GuardrailReturned /\ guard.tripwire_triggered

\* The message on_message sends when the guardrail has tripped.
Refusal == [op |-> "send", message |-> "refusal"]

\* on_message(message) is called: Runner.run_streamed starts the run and
\* the guardrail, and the loop over stream_events() begins.
OnMessage ==
    /\ mPc \in {"idle", "done", "raised"}
    /\ mPc' = "streaming"
    /\ guard' = [state |-> "running"]
    /\ received' = <<>>
    /\ msg' = None
    /\ toolSteps' = <<>>
    /\ ui' = <<>>
    /\ exc' = "none"
    /\ UNCHANGED fsVars
    /\ UNCHANGED csVars
    /\ UNCHANGED tlVars

\* The guardrail returns: the detector has classified the message.
GuardrailReturns(is_abusive) ==
    /\ guard.state = "running"
    /\ guard' = AbuseGuardrail([is_abusive |-> is_abusive, reason |-> "why"])
    /\ UNCHANGED <<mPc, received, msg, toolSteps, ui, exc>>
    /\ UNCHANGED fsVars
    /\ UNCHANGED csVars
    /\ UNCHANGED tlVars

\* The loop can take another event.
CanYield ==
    /\ mPc = "streaming"
    /\ ~Tripped
    /\ Len(received) < MaxEvents

\* The loop body for a tool_call_item: a step is sent, and kept when the
\* call has an id.
OnToolCall(event) ==
    /\ CanYield
    /\ event.type = "run_item_stream_event"
    /\ event.item.type = "tool_call_item"
    /\ received' = Append(received, event)
    /\ ui' = Append(ui, [op |-> "step.send", name |-> event.item.name,
                         input |-> event.item.arguments])
    /\ toolSteps' =
          IF event.item.call_id # ""
          THEN [c \in DOMAIN toolSteps \cup {event.item.call_id} |->
                  IF c = event.item.call_id
                  THEN [name |-> event.item.name,
                        input |-> event.item.arguments]
                  ELSE toolSteps[c]]
          ELSE toolSteps
    /\ UNCHANGED <<mPc, guard, msg, exc>>
    /\ UNCHANGED fsVars
    /\ UNCHANGED csVars
    /\ UNCHANGED tlVars

\* The loop body for a tool_call_output_item: the step of the call, when
\* there is one, gets the output and is updated.
OnToolOutput(event) ==
    /\ CanYield
    /\ event.type = "run_item_stream_event"
    /\ event.item.type = "tool_call_output_item"
    /\ received' = Append(received, event)
    /\ IF event.item.call_id # "" /\ event.item.call_id \in DOMAIN toolSteps
       THEN /\ toolSteps' =
                  [toolSteps EXCEPT ![event.item.call_id] =
                      [name |-> @.name, input |-> @.input,
                       output |-> event.item.output]]
            /\ ui' = Append(ui, [op |-> "step.update",
                                 call_id |-> event.item.call_id])
       ELSE UNCHANGED <<toolSteps, ui>>
    /\ UNCHANGED <<mPc, guard, msg, exc>>
    /\ UNCHANGED fsVars
    /\ UNCHANGED csVars
    /\ UNCHANGED tlVars

\* The response message as cl.Message(content="") makes it, and what the
\* handler asks the ui to do with it.
NewMessage == [content |-> <<>>, updates |-> 0]

SendResponse == [op |-> "send", message |-> "response"]

UpdateResponse == [op |-> "update", message |-> "response"]

StreamToken(delta) == [op |-> "stream_token", delta |-> delta]

\* _ensure_msg without its test: a message is created and sent each time.
EnsureMsgAlways(m, u) == [msg |-> NewMessage, ui |-> Append(u, SendResponse)]

\* _ensure_msg: the response message is created and sent if there is none.
EnsureMsg(m, u) ==
    IF m = None
    THEN [msg |-> NewMessage, ui |-> Append(u, SendResponse)]
    ELSE [msg |-> m, ui |-> u]

\* A text-delta branch that opens the message with the first delta and only
\* streams the ones that follow.
StreamDeltaAfterFirst(m, u, delta) ==
    IF m = None
    THEN EnsureMsg(m, u)
    ELSE [msg |-> [m EXCEPT !.content = Append(@, delta)],
          ui |-> Append(u, StreamToken(delta))]

\* The branch for a text delta: m = await _ensure_msg() and
\* await m.stream_token(delta), which appends the delta to the content.
StreamDelta(m, u, delta) ==
    LET e == EnsureMsg(m, u)
    IN  [msg |-> [e.msg EXCEPT !.content = Append(@, delta)],
         ui |-> Append(e.ui, StreamToken(delta))]

\* A handler that returns without msg.update().
FinalizeNever(m, u) == [msg |-> m, ui |-> u]

\* After the loop: the message that is open is finalized, msg.update().
Finalize(m, u) ==
    IF m # None
    THEN [msg |-> [m EXCEPT !.updates = @ + 1],
          ui |-> Append(u, UpdateResponse)]
    ELSE [msg |-> m, ui |-> u]

\* The loop body for a text delta: the response message is created and
\* sent if there is none (_ensure_msg), and the delta is streamed to it.
OnTextDelta(event) ==
    /\ CanYield
    /\ IsTextDelta(event)
    /\ received' = Append(received, event)
    /\ msg' = StreamDelta(msg, ui, event.data.delta).msg
    /\ ui' = StreamDelta(msg, ui, event.data.delta).ui
    /\ UNCHANGED <<mPc, guard, toolSteps, exc>>
    /\ UNCHANGED fsVars
    /\ UNCHANGED csVars
    /\ UNCHANGED tlVars

\* The loop body for any other event: nothing is done.
OnOtherEvent(event) ==
    /\ CanYield
    /\ ~IsTextDelta(event)
    /\ event.type = "run_item_stream_event" =>
          event.item.type \notin {"tool_call_item", "tool_call_output_item"}
    /\ received' = Append(received, event)
    /\ UNCHANGED <<mPc, guard, msg, toolSteps, ui, exc>>
    /\ UNCHANGED fsVars
    /\ UNCHANGED csVars
    /\ UNCHANGED tlVars

\* The stream ends: the message that is open is finalized and on_message
\* returns.
StreamEnds ==
    /\ mPc = "streaming"
    /\ GuardrailReturned
    /\ ~Tripped
    /\ mPc' = "done"
    /\ msg' = Finalize(msg, ui).msg
    /\ ui' = Finalize(msg, ui).ui
    /\ UNCHANGED <<guard, received, toolSteps, exc>>
    /\ UNCHANGED fsVars
    /\ UNCHANGED csVars
    /\ UNCHANGED tlVars

\* The except clause of on_message: the refusal is sent and on_message
\* returns.
ExceptTripwire ==
    /\ mPc' = "done"
    /\ ui' = Append(ui, Refusal)

\* stream_events() raises InputGuardrailTripwireTriggered: the guardrail
\* has returned with its tripwire set.
TripwireRaised ==
    /\ mPc = "streaming"
    /\ Tripped
    /\ exc' = "InputGuardrailTripwireTriggered"
    /\ ExceptTripwire
    /\ UNCHANGED <<guard, received, msg, toolSteps>>
    /\ UNCHANGED fsVars
    /\ UNCHANGED csVars
    /\ UNCHANGED tlVars

\* stream_events() raises another exception (the model's API fails, the
\* run exceeds its turns): no except clause catches it.
StreamFails ==
    /\ mPc = "streaming"
    /\ ~Tripped
    /\ exc' = "Exception"
    /\ mPc' = "raised"
    /\ UNCHANGED <<guard, received, msg, toolSteps, ui>>
    /\ UNCHANGED fsVars
    /\ UNCHANGED csVars
    /\ UNCHANGED tlVars

\* The chat handler has not been called.
IdleMsg ==
    /\ mPc = "idle"
    /\ guard = [state |-> "idle"]
    /\ received = <<>>
    /\ msg = None
    /\ toolSteps = <<>>
    /\ ui = <<>>
    /\ exc = "none"

NextMsg ==
    \/ OnMessage
    \/ \E is_abusive \in BOOLEAN : GuardrailReturns(is_abusive)
    \/ \E event \in StreamEvents : OnToolCall(event)
    \/ \E event \in StreamEvents : OnToolOutput(event)
    \/ \E event \in StreamEvents : OnTextDelta(event)
    \/ \E event \in StreamEvents : OnOtherEvent(event)
    \/ StreamEnds
    \/ TripwireRaised
    \/ StreamFails

(***************************************************************************)
(* The tools of the data dashboard (data_dashboard_agent.py), of the       *)
(* content pipeline (content_pipeline_agent.py) and of the research agent  *)
(* (research_agent.py).  Paths, package names and column names are         *)
(* sequences of one-character strings.  The file system and the libraries  *)
(* are the environment: each read or write of a call succeeds or raises,   *)
(* as the fault of the call says.                                          *)
(***************************************************************************)
\* The most calls of these tools in one behaviour.
MaxCalls == 1

SetMin(S) == CHOOSE x \in S : \A y \in S : x <= y

SetMax(S) == CHOOSE x \in S : \A y \in S : x >= y

\* str.endswith(suffix)
EndsWith(s, suffix) ==
    /\ Len(s) >= Len(suffix)
    /\ SubSeq(s, Len(s) - Len(suffix) + 1, Len(s)) = suffix

\* str.isalnum() on one character.
IsAlnum(c) ==
    \/ \E i \in 1..Len(UpperCase) : c \in {UpperCase[i], LowerCase[i]}
    \/ \E i \in 1..Len(Digits) : c = Digits[i]

\* os.path.expanduser: "~" at the start becomes the home directory.
Home == <<"/", "h", "o", "m", "e", "/", "u">>

ExpandUser(path) ==
    IF Len(path) > 0 /\ path[1] = "~" /\ (Len(path) = 1 \/ path[2] = "/")
    THEN Home \o Tail(path)
    ELSE path

\* os.path.join(dir, name), for a name that does not start with "/".
PathJoin(dir, name) ==
    IF dir = <<>> \/ dir[Len(dir)] = "/"
    THEN dir \o name
    ELSE dir \o <<"/">> \o name

\* os.path.basename
Basename(path) ==
    LET slashes == {i \in 1..Len(path) : path[i] = "/"}
    IN  IF slashes = {} THEN path
        ELSE SubSeq(path, SetMax(slashes) + 1, Len(path))

\* The first characters of a string: s[:n]
Slice(s, n) == SubSeq(s, 1, IF Len(s) < n THEN Len(s) ELSE n)

\* str.strip(), for spaces.
Strip(s) ==
    LET inked == {i \in 1..Len(s) : s[i] # " "}
    IN  IF inked = {} THEN <<>> ELSE SubSeq(s, SetMin(inked), SetMax(inked))

\* str.split(",")
RECURSIVE SplitComma(_)
SplitComma(s) ==
    LET commas == {i \in 1..Len(s) : s[i] = ","}
    IN  IF commas = {} THEN <<s>>
        ELSE <<SubSeq(s, 1, SetMin(commas) - 1)>>
                \o SplitComma(SubSeq(s, SetMin(commas) + 1, Len(s)))

\* The exceptions the environment raises; all are subclasses of Exception.
ExceptionClasses ==
    {"FileNotFoundError", "PermissionError", "OSError", "UnicodeDecodeError",
     "ValueError", "TypeError", "KeyError", "ImportError"}

\* How a block of statements ends: it returns a value or raises.
Return(v) == [kind |-> "return", value |-> v]

Raise(e) == [kind |-> "raise", exc |-> e]

\* An except clause for ImportError alone.
CaughtImportErrorOnly(outcome) ==
    outcome.kind = "raise" /\ outcome.exc = "ImportError"

\* except Exception as e: the clause takes what the try block raised.
Caught(outcome) ==
    outcome.kind = "raise" /\ outcome.exc \in ExceptionClasses

\* json.dumps({"error": f"<text>: {str(e)}"})
JsonError(text, e) == [error |-> <<text, e>>]

\* try: <block> except Exception as e: return json.dumps({"error": ...})
TryExcept(outcome, text) ==
    IF Caught(outcome) THEN Return(JsonError(text, outcome.exc)) ELSE outcome

\* What the environment does to the calls of one tool call: nothing, or
\* step number `at` raises exc.  For the data tools step 1 is the import
\* of the libraries, step 2 the read and step 3 the write; for the tools
\* that save, step 1 is os.makedirs and the writes follow.
NoFault == [at |-> 0, exc |-> "ok"]

FaultsAt(steps, errors) == {[at |-> k, exc |-> e] : k \in steps, e \in errors}

ErrAt(fault, k) == IF fault.at = k THEN fault.exc ELSE "ok"

ReadErrors == {"PermissionError", "UnicodeDecodeError"}

\* PermissionError: open() fails and the file is not made.  OSError: no
\* space is left, write() fails after open() has made the file.
WriteErrors == {"PermissionError", "OSError"}

DataFaults ==
    {NoFault} \cup FaultsAt({1}, {"ImportError"}) \cup FaultsAt({2}, ReadErrors)

\* An entry of the log of the reads and writes of a call.
IoEntry(op, path, result) == [op |-> op, path |-> path, result |-> result]

\* open(path, "r") and read(): the file must exist.
ReadFile(d, path, err) == IF path \notin d THEN "FileNotFoundError" ELSE err

IsExcelFile(path) == EndsWith(path, <<".", "x", "l", "s", "x">>) \/ EndsWith(path, <<".", "x", "l", "s">>)

\* pd.read_csv(path)
ReadCsv(d, path, err) == ReadFile(d, path, err)

\* pd.read_excel(path): a file that is no workbook gives a ValueError.
ReadExcel(d, path, err) ==
    IF path \notin d THEN "FileNotFoundError"
    ELSE IF ~IsExcelFile(path) THEN "ValueError"
    ELSE err

\* open(path, "w") and write(): the disk after it.
WriteFile(d, path, err) == IF err = "PermissionError" THEN d ELSE d \cup {path}

\* The files the tools are called on, and the disk they start from.
DataCsv == <<"d", "a", "t", "a", ".", "c", "s", "v">>

DataXlsx == <<"d", "a", "t", "a", ".", "x", "l", "s", "x">>

NotesTxt == <<"~", "/", "n", "o", "t", "e", "s", ".", "t", "x", "t">>

GoneCsv == <<"g", "o", "n", "e", ".", "c", "s", "v">>

InitialDisk == {DataCsv, DataXlsx, ExpandUser(NotesTxt)}

DataPaths == {DataCsv, DataXlsx, NotesTxt, GoneCsv}

\* The data file as pandas parses it: the names of its columns, in order,
\* the columns that hold text, and the values of each column, row by row.
\* A value is a natural number (in a text column it stands for a word) or
\* NaN, a missing value.
NaN == -1

ColumnSet(fr) == {fr.columns[i] : i \in 1..Len(fr.columns)}

\* df.select_dtypes(include=[np.number]).columns.tolist()
NumericColumns(fr) == SelectSeq(fr.columns, LAMBDA c : c \notin fr.text)

\* len(df)
RowCount(fr) ==
    IF fr.columns = <<>> THEN 0 ELSE Len(fr.data[fr.columns[1]])

\* Series.dropna()
DropNa(col) == SelectSeq(col, LAMBDA v : v # NaN)

NullCount(col) == Len(col) - Len(DropNa(col))

Sorted(s) == SortSeq(s, LAMBDA a, b : a < b)

\* Series.quantile(k / 4) times 4, with the linear interpolation pandas
\* uses: the position (n - 1) * k / 4 in the sorted values.
Quantile4(data, k) ==
    LET s == Sorted(data)
        pos4 == k * (Len(s) - 1)
        lo == pos4 \div 4
        r == pos4 % 4
    IN  IF r = 0 THEN 4 * s[lo + 1]
        ELSE 4 * s[lo + 1] + r * (s[lo + 2] - s[lo + 1])

\* The least number of values of a column the outlier check asks for, the
\* number of outliers from which the severity is medium and the most
\* indices listed.
MinValues == 10

MediumFrom == 5

MaxIndices == 10

\* An outlier test that takes the bounds themselves for outliers.
OutlierRowsInclusive(col, lower8, upper8) ==
    {i \in 1..Len(col) :
        col[i] # NaN /\ (8 * col[i] <= lower8 \/ 8 * col[i] >= upper8)}

\* df[(df[col] < lower_bound) | (df[col] > upper_bound)]: the rows of the
\* outliers, the bounds given times 8.  A comparison with NaN is false.
OutlierRows(col, lower8, upper8) ==
    {i \in 1..Len(col) :
        col[i] # NaN /\ (8 * col[i] < lower8 \/ 8 * col[i] > upper8)}

\* outliers.index.tolist(): the index of a row is its number from 0.
IndexList(rows, n) ==
    LET kept == SelectSeq([i \in 1..n |-> i], LAMBDA i : i \in rows)
    IN  [j \in 1..Len(kept) |-> kept[j] - 1]

OutlierSeverity(count) == IF count < MediumFrom THEN "low" ELSE "medium"

\* The body of the loop over cols_to_check, for one column: the anomalies
\* it appends.
OutlierAnomaly(fr, col) ==
    IF col \notin ColumnSet(fr) THEN <<>>
    ELSE LET data == DropNa(fr.data[col])
         IN  IF Len(data) < MinValues THEN <<>>
             ELSE LET Q1 == Quantile4(data, 1)
                      Q3 == Quantile4(data, 3)
                      IQR == Q3 - Q1
                      lower8 == 2 * Q1 - 3 * IQR
                      upper8 == 2 * Q3 + 3 * IQR
                      outliers == OutlierRows(fr.data[col], lower8, upper8)
                  IN  IF Cardinality(outliers) > 0
                      THEN <<[type |-> "outliers",
                              location |-> col,
                              count |-> Cardinality(outliers),
                              severity |-> OutlierSeverity(Cardinality(outliers)),
                              outlier_indices |->
                                  Slice(IndexList(outliers, Len(fr.data[col])),
                                        MaxIndices)]>>
                      ELSE <<>>

RECURSIVE OutlierAnomalies(_, _)
OutlierAnomalies(fr, cols) ==
    IF cols = <<>> THEN <<>>
    ELSE OutlierAnomaly(fr, Head(cols)) \o OutlierAnomalies(fr, Tail(cols))

\* pct = round(count / len(df) * 100, 1); "high" if pct > 20 else "medium"
\* if pct > 5 else "low".  The rounded pct is above 20 when count / len is
\* above 20.05 percent, and above 5 when it is above 5.05 percent.
MissingSeverity(count, rows) ==
    IF 2000 * count > 401 * rows THEN "high"
    ELSE IF 2000 * count > 101 * rows THEN "medium"
    ELSE "low"

MissingAnomalies(fr) ==
    LET cols == SelectSeq(fr.columns, LAMBDA c : NullCount(fr.data[c]) > 0)
    IN  [i \in 1..Len(cols) |->
            [type |-> "missing_values",
             location |-> cols[i],
             count |-> NullCount(fr.data[cols[i]]),
             severity |-> MissingSeverity(NullCount(fr.data[cols[i]]),
                                          RowCount(fr))]]

\* df.duplicated().sum(): the rows equal to a row before them.
DuplicateAnomalies(fr) ==
    LET Row(i) == [c \in ColumnSet(fr) |-> fr.data[c][i]]
        dups == {i \in 1..RowCount(fr) : \E j \in 1..(i - 1) : Row(j) = Row(i)}
    IN  IF Cardinality(dups) > 0
        THEN <<[type |-> "duplicates", location |-> <<>>,
                count |-> Cardinality(dups), severity |-> "medium"]>>
        ELSE <<>>

\* cols_to_check: the names of numeric_columns, or every numeric column
\* when numeric_columns is None or empty.
ColsToCheck(fr, numeric_columns) ==
    IF numeric_columns # <<>>
    THEN LET parts == SplitComma(numeric_columns)
         IN  [i \in 1..Len(parts) |-> Strip(parts[i])]
    ELSE NumericColumns(fr)

\* Series.quantile raises a TypeError for a column of text.
QuantileFails(fr, cols) ==
    \E i \in 1..Len(cols) :
        /\ cols[i] \in ColumnSet(fr)
        /\ cols[i] \in fr.text
        /\ Len(DropNa(fr.data[cols[i]])) >= MinValues

\* pd.read_csv for a path that ends with ".csv", pd.read_excel otherwise.
ReadFrame(d, path, err) ==
    IF EndsWith(path, <<".", "c", "s", "v">>) THEN ReadCsv(d, path, err)
    ELSE ReadExcel(d, path, err)

\* load_and_analyze_data: the outcome and the reads of the call.
LoadAndAnalyzeDataBody(d, fr, file_path, fault) ==
    LET path == ExpandUser(file_path)
        r == ReadFrame(d, path, ErrAt(fault, 2))
        info == [file_name |-> Basename(path),
                 row_count |-> RowCount(fr),
                 column_count |-> Len(fr.columns),
                 columns |->
                    [i \in 1..Len(fr.columns) |->
                        [column_name |-> fr.columns[i],
                         data_type |-> IF fr.columns[i] \in fr.text
                                       THEN "text" ELSE "numeric",
                         non_null_count |-> Len(DropNa(fr.data[fr.columns[i]])),
                         null_count |-> NullCount(fr.data[fr.columns[i]])]]]
    IN  IF ErrAt(fault, 1) # "ok"
        THEN [outcome |-> Return([error |-> <<"pandas not installed">>]),
              io |-> <<>>, disk |-> d]
        ELSE IF ~(EndsWith(path, <<".", "c", "s", "v">>) \/ IsExcelFile(path))
        THEN [outcome |-> Return([error |-> <<"Unsupported file format">>]),
              io |-> <<>>, disk |-> d]
        ELSE [outcome |-> TryExcept(IF r = "ok" THEN Return(info) ELSE Raise(r),
                                    "Error loading file"),
              io |-> <<IoEntry("read", path, r)>>, disk |-> d]

\* detect_anomalies: the outcome and the reads of the call.
DetectAnomaliesBody(d, fr, file_path, numeric_columns, fault) ==
    LET path == ExpandUser(file_path)
        r == ReadFrame(d, path, ErrAt(fault, 2))
        anomalies == MissingAnomalies(fr) \o DuplicateAnomalies(fr)
                        \o OutlierAnomalies(fr, ColsToCheck(fr, numeric_columns))
        report == [file |-> Basename(path),
                   total_anomalies |-> Len(anomalies),
                   anomalies |-> anomalies]
    IN  IF ErrAt(fault, 1) # "ok"
        THEN [outcome |-> Return([error |-> <<"pandas not installed">>]),
              io |-> <<>>, disk |-> d]
        ELSE [outcome |->
                 TryExcept(IF r # "ok" THEN Raise(r)
                           ELSE IF QuantileFails(fr, ColsToCheck(fr, numeric_columns))
                           THEN Raise("TypeError")
                           ELSE Return(report),
                           "Error detecting anomalies"),
              io |-> <<IoEntry("read", path, r)>>, disk |-> d]

\* The chart types create_visualization draws.
ChartTypes == {"line", "bar", "scatter", "histogram", "box"}

DefaultChart == <<".", "/", "c", "h", "a", "r", "t", "_", "o", "u", "t", "p", "u", "t", ".", "p", "n", "g">>

\* create_visualization: the outcome, the reads and writes of the call and
\* the disk after it.  No y_column and no output_path are <<>>.
CreateVisualizationBody(d, fr, file_path, chart_type, x_column, y_column, output_path, fault) ==
    LET path == ExpandUser(file_path)
        r == ReadFrame(d, path, ErrAt(fault, 2))
        read == <<IoEntry("read", path, r)>>
        with_y == chart_type \in {"line", "bar", "scatter"} /\ y_column # <<>>
        save_path == IF output_path # <<>> THEN ExpandUser(output_path)
                     ELSE DefaultChart
        w == ErrAt(fault, 3)
        text == "Error creating visualization"
    IN  IF ErrAt(fault, 1) # "ok"
        THEN [outcome |-> Return([error |-> <<"matplotlib not installed">>]),
              io |-> <<>>, disk |-> d]
        ELSE IF r # "ok"
        THEN [outcome |-> TryExcept(Raise(r), text), io |-> read, disk |-> d]
        ELSE IF chart_type = "scatter" /\ y_column = <<>>
        THEN [outcome |-> Return([error |-> <<"Scatter plot requires y_column">>]),
              io |-> read, disk |-> d]
        ELSE IF chart_type \notin ChartTypes
        THEN [outcome |-> Return([error |-> <<"Unknown chart type">>]),
              io |-> read, disk |-> d]
        ELSE IF x_column \notin ColumnSet(fr)
                  \/ (with_y /\ y_column \notin ColumnSet(fr))
        THEN [outcome |-> TryExcept(Raise("KeyError"), text),
              io |-> read, disk |-> d]
        ELSE [outcome |->
                 TryExcept(IF w = "ok"
                           THEN Return([success |-> TRUE,
                                        chart_type |-> chart_type,
                                        output_path |-> save_path])
                           ELSE Raise(w), text),
              io |-> Append(read, IoEntry("write", save_path, w)),
              disk |-> WriteFile(d, save_path, w)]

\* Series.sum(), min() and max() skip the missing values.
RECURSIVE SeqSum(_)
SeqSum(s) == IF s = <<>> THEN 0 ELSE Head(s) + SeqSum(Tail(s))

ColumnStats(col) ==
    LET data == DropNa(col)
        values == {data[i] : i \in 1..Len(data)}
    IN  [sum |-> SeqSum(data),
         min |-> IF values = {} THEN NaN ELSE SetMin(values),
         max |-> IF values = {} THEN NaN ELSE SetMax(values)]

\* generate_summary_stats: the outcome and the reads of the call.  No
\* group_by is <<>>.
GenerateSummaryStatsBody(d, fr, file_path, group_by, fault) ==
    LET path == ExpandUser(file_path)
        r == ReadFrame(d, path, ErrAt(fault, 2))
        grouped == group_by # <<>> /\ group_by \in ColumnSet(fr)
        numeric_cols == ColumnSet(fr) \ fr.text
        Group(v) ==
            [c \in numeric_cols |->
                ColumnStats([i \in 1..RowCount(fr) |->
                                IF fr.data[group_by][i] = v
                                THEN fr.data[c][i] ELSE NaN])]
        keys == {fr.data[group_by][i] : i \in 1..RowCount(fr)} \ {NaN}
        stats == IF grouped
                 THEN [grouped_by |-> group_by,
                       groups |-> [v \in keys |-> Group(v)]]
                 ELSE [overall |->
                          [c \in numeric_cols |-> ColumnStats(fr.data[c])]]
    IN  IF ErrAt(fault, 1) # "ok"
        THEN [outcome |-> Return([error |-> <<"pandas not installed">>]),
              io |-> <<>>, disk |-> d]
        ELSE [outcome |-> TryExcept(IF r = "ok" THEN Return(stats) ELSE Raise(r),
                                    "Error generating stats"),
              io |-> <<IoEntry("read", path, r)>>, disk |-> d]

\* read_source_content: the outcome and the reads of the call.
ReadSourceContentBody(d, file_path, fault) ==
    LET path == ExpandUser(file_path)
        r == ReadFile(d, path, ErrAt(fault, 2))
    IN  IF path \notin d
        THEN [outcome |-> Return([error |-> <<"File not found">>]),
              io |-> <<IoEntry("exists", path, "missing")>>, disk |-> d]
        ELSE [outcome |->
                 TryExcept(IF r = "ok"
                           THEN Return([file_path |-> path,
                                        content |-> "content"])
                           ELSE Raise(r), "Error reading file"),
              io |-> <<IoEntry("exists", path, "ok"), IoEntry("read", path, r)>>,
              disk |-> d]

\* The most characters of a package name and of a topic kept in a file
\* name.
PackageNameLen == 30

TopicLen == 50

\* "".join(c if c.isalnum() or c in " -_" else "_" for c in name)
\*    .replace(" ", "_")[:n]
SafeName(name, n) ==
    LET kept == [i \in 1..Len(name) |->
                    IF IsAlnum(name[i]) \/ name[i] \in {" ", "-", "_"}
                    THEN name[i] ELSE "_"]
        replaced == [i \in 1..Len(kept) |->
                        IF kept[i] = " " THEN "_" ELSE kept[i]]
    IN  Slice(replaced, n)

\* datetime.now().strftime("%Y%m%d"), for a day of November 2026.
DateFormat(day) ==
    <<"2", "0", "2", "6", "1", "1">> \o <<Digits[((day \div 10) % 10) + 1], Digits[(day % 10) + 1]>>

\* The files of a package with the master file before the others.
PackagePartsMasterFirst ==
    <<[suffix |-> <<"_", "C", "O", "M", "P", "L", "E", "T", "E", ".", "m", "d">>, content |-> "master"],
      [suffix |-> <<"_", "y", "o", "u", "t", "u", "b", "e", ".", "t", "x", "t">>, content |-> "youtube_description"],
      [suffix |-> <<"_", "s", "h", "o", "r", "t", "f", "o", "r", "m", ".", "t", "x", "t">>, content |-> "short_form_script"],
      [suffix |-> <<"_", "n", "e", "w", "s", "l", "e", "t", "t", "e", "r", ".", "t", "x", "t">>, content |-> "newsletter_content"],
      [suffix |-> <<"_", "t", "i", "t", "l", "e", "s", ".", "t", "x", "t">>, content |-> "titles"]>>

\* The files save_content_package writes, in the order of its statements:
\* the end of the name and what is written.
PackageParts ==
    <<[suffix |-> <<"_", "y", "o", "u", "t", "u", "b", "e", ".", "t", "x", "t">>, content |-> "youtube_description"],
      [suffix |-> <<"_", "s", "h", "o", "r", "t", "f", "o", "r", "m", ".", "t", "x", "t">>, content |-> "short_form_script"],
      [suffix |-> <<"_", "n", "e", "w", "s", "l", "e", "t", "t", "e", "r", ".", "t", "x", "t">>, content |-> "newsletter_content"],
      [suffix |-> <<"_", "t", "i", "t", "l", "e", "s", ".", "t", "x", "t">>, content |-> "titles"],
      [suffix |-> <<"_", "C", "O", "M", "P", "L", "E", "T", "E", ".", "m", "d">>, content |-> "master"]>>

\* The writes of save_content_package from part i on: each file is opened,
\* written and appended to saved_files; the first write that fails ends
\* them.  Write i is step i + 1 of the call.
RECURSIVE WriteParts(_, _, _, _, _, _, _)
WriteParts(d, io, saved, dir, base_name, i, fault) ==
    IF i > Len(PackageParts)
    THEN [disk |-> d, io |-> io, saved |-> saved, raised |-> "ok"]
    ELSE LET path == PathJoin(dir, base_name \o PackageParts[i].suffix)
             err == ErrAt(fault, i + 1)
             entry == [op |-> "write", path |-> path, result |-> err,
                       content |-> PackageParts[i].content]
         IN  IF err # "ok"
             THEN [disk |-> WriteFile(d, path, err), io |-> Append(io, entry),
                   saved |-> saved, raised |-> err]
             ELSE WriteParts(WriteFile(d, path, err), Append(io, entry),
                             Append(saved, path), dir, base_name, i + 1, fault)

\* save_content_package: the outcome, the writes of the call and the disk
\* after it.
SaveContentPackageBody(d, output_dir, package_name, day, fault) ==
    LET dir == ExpandUser(output_dir)
        mk == ErrAt(fault, 1)
        base_name == SafeName(package_name, PackageNameLen)
                        \o <<"_">> \o DateFormat(day)
        w == WriteParts(d, <<>>, <<>>, dir, base_name, 1, fault)
        master_path == PathJoin(dir, base_name \o <<"_", "C", "O", "M", "P", "L", "E", "T", "E", ".", "m", "d">>)
        text == "Error saving content"
    IN  IF mk # "ok"
        THEN [outcome |-> TryExcept(Raise(mk), text),
              io |-> <<IoEntry("makedirs", dir, mk)>>, disk |-> d]
        ELSE [outcome |->
                 TryExcept(IF w.raised = "ok"
                           THEN Return([success |-> TRUE,
                                        output_dir |-> dir,
                                        files_created |-> Len(w.saved),
                                        files |-> w.saved,
                                        master_file |-> master_path])
                           ELSE Raise(w.raised), text),
              io |-> <<IoEntry("makedirs", dir, mk)>> \o w.io,
              disk |-> w.disk]

\* save_research_notes: the outcome, the writes of the call and the disk
\* after it.  The time of day of the timestamp is noon.
SaveResearchNotesBody(d, topic, output_dir, day, fault) ==
    LET mk == ErrAt(fault, 1)
        w == ErrAt(fault, 2)
        filename == SafeName(topic, TopicLen) \o <<"_">> \o DateFormat(day)
                        \o <<"_", "1", "2", "0", "0", "0", "0", ".", "m", "d">>
        filepath == PathJoin(output_dir, filename)
        Handled(outcome) ==
            IF Caught(outcome)
            THEN Return([text |-> "Error saving notes", exc |-> outcome.exc])
            ELSE outcome
    IN  IF mk # "ok"
        THEN [outcome |-> Handled(Raise(mk)),
              io |-> <<IoEntry("makedirs", output_dir, mk)>>, disk |-> d]
        ELSE [outcome |->
                 Handled(IF w = "ok"
                         THEN Return([text |-> "Successfully saved research notes to",
                                      path |-> filepath])
                         ELSE Raise(w)),
              io |-> <<IoEntry("makedirs", output_dir, mk),
                       IoEntry("write", filepath, w)>>,
              disk |-> WriteFile(d, filepath, w)]

(***************************************************************************)
(* The inputs of the tools.                                                *)
(***************************************************************************)
ColX == <<"x">>

ColY == <<"y">>

ColG == <<"g">>

\* A data file with the numeric columns x and y and the text column g: y
\* and g hold fewer values than the outlier check asks for.
MakeFrame(x) ==
    [columns |-> <<ColX, ColY, ColG>>,
     text |-> {ColG},
     data |-> [c \in {ColX, ColY, ColG} |->
                  IF c = ColX THEN x
                  ELSE IF c = ColY
                  THEN [i \in 1..Len(x) |->
                           IF i = 1 THEN 100
                           ELSE IF i < MinValues THEN 5 ELSE NaN]
                  ELSE [i \in 1..Len(x) |-> IF i <= 4 THEN i % 2 ELSE NaN]]]

\* A column: low values, missing values, middle values that alternate
\* between 20 and 20 + spread, and high values.
BlockColumn(lows, nans, mids, highs, spread, low, high) ==
    [i \in 1..(lows + nans + mids + highs) |->
        IF i <= lows THEN low
        ELSE IF i <= lows + nans THEN NaN
        ELSE IF i <= lows + nans + mids THEN 20 + spread * (i % 2)
        ELSE high]

\* The data files of the outlier check.
IQRFrames ==
    {MakeFrame(BlockColumn(lows, nans, mids, highs, spread, low, high)) :
        lows \in {0, 1, 4, 5, 6}, nans \in {0, 2}, mids \in {3, 9, 13, 20},
        highs \in {0, 1, 5, 6}, spread \in {0, 2}, low \in {0, 17},
        high \in {25, 40}}

\* The data files of the other calls: one of twelve rows, one of none.
SmallFrames ==
    {MakeFrame(BlockColumn(1, 1, 9, 1, 2, 0, 40)), MakeFrame(<<>>)}

EmptyFrame == [columns |-> <<>>, text |-> {}, data |-> <<>>]

ColumnArgs == {<<>>, <<"x">>, <<"x", ",", " ", "z">>, <<"y", ",", "x">>, <<"g">>}

ChartArgs == {"line", "scatter", "pie"}

OutputPathArgs == {<<>>, <<"~", "/", "c", ".", "p", "n", "g">>}

VisualizationFaults == DataFaults \cup FaultsAt({3}, WriteErrors)

SourceFaults == {NoFault} \cup FaultsAt({2}, ReadErrors)

PackageNames ==
    {<<"a", " ", "b">>, <<"a", "/", "b">>, <<"V", "1", ".", "0", "-", "x", "_", "y">>, <<>>, [i \in 1..(PackageNameLen + 1) |-> "n"]}

OutputDirs == {<<"~", "/", "o", "u", "t">>}

Days == {1, 2}

PackageFaults == {NoFault} \cup FaultsAt(1..(Len(PackageParts) + 1), WriteErrors)

Topics == {<<"a", "i", " ", "n", "e", "w", "s">>, <<"a", "/", "b", ":", " ", "c">>}

NotesDirs == {<<".", "/", "r", "e", "s", "e", "a", "r", "c", "h", "_", "n", "o", "t", "e", "s">>}

NotesFaults == {NoFault} \cup FaultsAt(1..2, WriteErrors)

(***************************************************************************)
(* The calls of the tools.                                                 *)
(***************************************************************************)
\* A call is made: what it returned or raised, its reads and writes, and
\* the disk after it.
ToolCalled(call, r) ==
    /\ tlCalls < MaxCalls
    /\ tlCalls' = tlCalls + 1
    /\ tlCall' = [op |-> call.op, args |-> call,
                  outcome |-> r.outcome, io |-> r.io]
    /\ disk' = r.disk
    /\ UNCHANGED frame
    /\ UNCHANGED fsVars
    /\ UNCHANGED csVars
    /\ UNCHANGED msgVars

LoadAndAnalyzeData(file_path, fault) ==
    ToolCalled([op |-> "load_and_analyze_data", file_path |-> file_path,
                fault |-> fault],
               LoadAndAnalyzeDataBody(disk, frame, file_path, fault))

DetectAnomalies(file_path, numeric_columns, fault) ==
    ToolCalled([op |-> "detect_anomalies", file_path |-> file_path,
                numeric_columns |-> numeric_columns, fault |-> fault],
               DetectAnomaliesBody(disk, frame, file_path, numeric_columns,
                                   fault))

CreateVisualization(file_path, chart_type, x_column, y_column, output_path, fault) ==
    ToolCalled([op |-> "create_visualization", file_path |-> file_path,
                chart_type |-> chart_type, x_column |-> x_column,
                y_column |-> y_column, output_path |-> output_path,
                fault |-> fault],
               CreateVisualizationBody(disk, frame, file_path, chart_type,
                                       x_column, y_column, output_path, fault))

GenerateSummaryStats(file_path, group_by, fault) ==
    ToolCalled([op |-> "generate_summary_stats", file_path |-> file_path,
                group_by |-> group_by, fault |-> fault],
               GenerateSummaryStatsBody(disk, frame, file_path, group_by,
                                        fault))

ReadSourceContent(file_path, fault) ==
    ToolCalled([op |-> "read_source_content", file_path |-> file_path,
                fault |-> fault],
               ReadSourceContentBody(disk, file_path, fault))

SaveContentPackage(output_dir, package_name, day, fault) ==
    ToolCalled([op |-> "save_content_package", output_dir |-> output_dir,
                package_name |-> package_name, day |-> day, fault |-> fault],
               SaveContentPackageBody(disk, output_dir, package_name, day,
                                      fault))

SaveResearchNotes(topic, output_dir, day, fault) ==
    ToolCalled([op |-> "save_research_notes", topic |-> topic,
                output_dir |-> output_dir, day |-> day, fault |-> fault],
               SaveResearchNotesBody(disk, topic, output_dir, day, fault))

\* No tool has been called and there is no data file.
IdleTools ==
    /\ disk = {}
    /\ frame = EmptyFrame
    /\ tlCall = [op |-> "none"]
    /\ tlCalls = 0

\* The disk holds the data files and the notes; the data file holds one
\* of the small tables.
InitTools ==
    /\ disk = InitialDisk
    /\ frame \in SmallFrames
    /\ tlCall = [op |-> "none"]
    /\ tlCalls = 0

\* The data file holds one of the tables of the outlier check.
InitIQR ==
    /\ disk = InitialDisk
    /\ frame \in IQRFrames
    /\ tlCall = [op |-> "none"]
    /\ tlCalls = 0

NextTools ==
    \/ \E file_path \in DataPaths, fault \in DataFaults :
          LoadAndAnalyzeData(file_path, fault)
    \/ \E file_path \in DataPaths, numeric_columns \in ColumnArgs,
          fault \in DataFaults :
          DetectAnomalies(file_path, numeric_columns, fault)
    \/ \E file_path \in DataPaths, chart_type \in ChartArgs,
          x_column \in {ColX, <<"z">>}, y_column \in {<<>>, ColY},
          output_path \in OutputPathArgs, fault \in VisualizationFaults :
          CreateVisualization(file_path, chart_type, x_column, y_column,
                              output_path, fault)
    \/ \E file_path \in DataPaths, group_by \in {<<>>, ColG, <<"z">>},
          fault \in DataFaults :
          GenerateSummaryStats(file_path, group_by, fault)
    \/ \E file_path \in DataPaths, fault \in SourceFaults :
          ReadSourceContent(file_path, fault)
    \/ \E output_dir \in OutputDirs, package_name \in PackageNames,
          day \in Days, fault \in PackageFaults :
          SaveContentPackage(output_dir, package_name, day, fault)
    \/ \E topic \in Topics, output_dir \in NotesDirs, day \in Days,
          fault \in NotesFaults :
          SaveResearchNotes(topic, output_dir, day, fault)

NextIQR ==
    \E numeric_columns \in ColumnArgs, fault \in DataFaults :
        DetectAnomalies(DataCsv, numeric_columns, fault)

(***************************************************************************)
(* Specifications: one for each program.                                   *)
(***************************************************************************)
StartFS == InitFS /\ IdleCS /\ IdleMsg /\ IdleTools

SpecFS == StartFS /\ [][NextFS]_vars

StartCat == InitCat /\ IdleCS /\ IdleMsg /\ IdleTools

SpecCat == StartCat /\ [][NextFS]_vars

StartCS == InitCS /\ IdleFS /\ IdleMsg /\ IdleTools

SpecCS == StartCS /\ [][NextCS]_vars

StartMsg == IdleMsg /\ IdleFS /\ IdleCS /\ IdleTools

SpecMsg == StartMsg /\ [][NextMsg]_vars

StartTools == InitTools /\ IdleFS /\ IdleCS /\ IdleMsg

SpecTools == StartTools /\ [][NextTools]_vars

StartIQR == InitIQR /\ IdleFS /\ IdleCS /\ IdleMsg

SpecIQR == StartIQR /\ [][NextIQR]_vars

(***************************************************************************)
(* The file organizer: claims.                                             *)
(***************************************************************************)
\* The last call was organize_files on the folder itself.
OrganizeCalled(dry_run) ==
    /\ fsCall.op = "organize_files"
    /\ fsCall.dry_run = dry_run
    /\ "actions" \in DOMAIN fsCall.result

\* The actions the last report gives for entry n.
ActionsOf(n) ==
    {i \in 1..Len(fsCall.result.actions) : fsCall.result.actions[i].file_name = n}

\* C1: organize_files with dry_run=True leaves the file system as it was (no
\* file moved or renamed, no category folder created), and reports every
\* entry that is neither hidden nor a directory once, as 'would_move', and
\* nothing as moved.
C1_DryRunLeavesFolder ==
    (fsCall.op = "organize_files" /\ fsCall.dry_run) =>
        /\ fs = fsCall.pre
        /\ OrganizeCalled(TRUE) =>
            /\ \A n \in IterDir(fs) :
                  (~IsDir(fs, <<n>>) /\ ~IsHidden(n)) =>
                      /\ Cardinality(ActionsOf(n)) = 1
                      /\ \A i \in ActionsOf(n) :
                            fsCall.result.actions[i].action = "would_move"
            /\ \A i \in 1..Len(fsCall.result.actions) :
                  fsCall.result.actions[i].action \in {"would_move", "skipped"}
            /\ fsCall.result.mode = "DRY RUN"

\* A dry run reported a file it would move under a timestamped name, beside
\* a hidden file and a directory.
C1_Witness ==
    /\ OrganizeCalled(TRUE)
    /\ \E n \in IterDir(fs) : IsDir(fs, <<n>>)
    /\ \E i \in 1..Len(fsCall.result.actions) :
          fsCall.result.actions[i].action = "skipped"
    /\ \E i \in 1..Len(fsCall.result.actions) :
          /\ fsCall.result.actions[i].action = "would_move"
          /\ fsCall.result.actions[i].destination #
                Append(PdfFolder, fsCall.result.actions[i].file_name)

\* C2: during a run started with execute=False the folder stays as it was
\* when the run started, whatever tool calls the model issues.
C2_DryRunMovesNothing == run = "dry" => fs = runFs

\* C3: organize_files with dry_run=False loses no file: the content of
\* every file that existed before the call is still the content of a file
\* after it.
C3_NoFileLost ==
    (fsCall.op = "organize_files" /\ ~fsCall.dry_run) =>
        Contents(fsCall.pre) \subseteq Contents(fs)

\* Strings s and t are the same but for the case of their letters.
EqIgnoreCase(s, t) ==
    /\ Len(s) = Len(t)
    /\ \A i \in 1..Len(s) :
          \/ s[i] = t[i]
          \/ \E k \in 1..Len(UpperCase) :
                {s[i], t[i]} = {UpperCase[k], LowerCase[k]}

\* The final extensions of a name: the last dot and what follows it, when
\* something stands before the dot and something after it.
FinalExtensions(name) ==
    {SubSeq(name, k, Len(name)) : k \in
        {j \in 2..(Len(name) - 1) :
            /\ name[j] = "."
            /\ \A l \in (j + 1)..Len(name) : name[l] # "."}}

\* The folder the table lists for the final extension of a name, the case
\* of the letters set aside, and 'Other' when it lists none.
ListedFolder(name) ==
    LET rows == {i \in 1..Len(FILE_CATEGORIES) :
                    \E e \in FinalExtensions(name) :
                        EqIgnoreCase(e, FILE_CATEGORIES[i][1])}
    IN  IF rows = {} THEN <<<<"O", "t", "h", "e", "r">>>>
        ELSE FILE_CATEGORIES[CHOOSE i \in rows : TRUE][2]

\* C11: scan_folder, organize_files and get_folder_summary give a file the
\* folder the table lists for its final extension, compared without regard
\* to case, and 'Other' for every other extension and for none.
C11_CategoryByExtension ==
    /\ (fsCall.op = "scan_folder" /\ "files" \in DOMAIN fsCall.result) =>
          \A i \in 1..Len(fsCall.result.files) :
              fsCall.result.files[i].category =
                  ListedFolder(fsCall.result.files[i].name)
    /\ (fsCall.op = "organize_files" /\ "actions" \in DOMAIN fsCall.result) =>
          \A i \in 1..Len(fsCall.result.actions) :
              LET a == fsCall.result.actions[i]
              IN  a.action \in {"would_move", "moved"} =>
                    /\ a.reason = ListedFolder(a.file_name)
                    /\ SubSeq(a.destination, 1, Len(a.destination) - 1) =
                          ListedFolder(a.file_name)
    /\ (fsCall.op = "get_folder_summary"
            /\ "categories" \in DOMAIN fsCall.result) =>
          LET files == {n \in IterDir(fsCall.pre) :
                          ~IsDir(fsCall.pre, <<n>>) /\ n[1] # "."}
          IN  /\ DOMAIN fsCall.result.categories =
                    {ListedFolder(n) : n \in files}
              /\ \A c \in DOMAIN fsCall.result.categories :
                    fsCall.result.categories[c].count =
                        Cardinality({n \in files : ListedFolder(n) = c})

\* organize_files moved a file with an upper-case extension into the
\* folder listed for the extension.
C11_Witness ==
    /\ OrganizeCalled(FALSE)
    /\ \E i \in 1..Len(fsCall.result.actions) :
          /\ fsCall.result.actions[i].action = "moved"
          /\ fsCall.result.actions[i].file_name = <<"a", ".", "P", "N", "G">>
          /\ fsCall.result.actions[i].destination =
                <<<<"I", "m", "a", "g", "e", "s">>, <<"a", ".", "P", "N", "G">>>>

(***************************************************************************)
(* The customer service tools: claims.                                     *)
(***************************************************************************)
\* The last call named an order of the database.
CalledOnOrder(op) ==
    /\ csCall.op = op
    /\ csCall.order_id \in DOMAIN db

\* The last call named an order of the customer of the context.
CalledOnOwnOrder(op) ==
    /\ CalledOnOrder(op)
    /\ db[csCall.order_id].customer_id = ctx.customer_id

\* The last call named an order of another customer.
CalledOnForeignOrder(op) ==
    /\ CalledOnOrder(op)
    /\ db[csCall.order_id].customer_id # ctx.customer_id

\* The fields of a result that hold data of an order.
OrderData ==
    {"item", "price", "status", "tracking", "eta", "refund", "amount", "lines"}

\* C4: lookup_order and calculate_refund answer 'does not belong to your
\* account', with no data of the order, for an order of another customer;
\* list_customer_orders lists exactly the orders of the context's customer,
\* each with its own data, and 'No orders found' when there are none.
C4_NoForeignOrderData ==
    /\ CalledOnForeignOrder("lookup_order") =>
          /\ csCall.result.text = "Order does not belong to your account"
          /\ DOMAIN csCall.result \cap OrderData = {}
    /\ CalledOnForeignOrder("calculate_refund") =>
          /\ csCall.result.text = "This order does not belong to your account"
          /\ DOMAIN csCall.result \cap OrderData = {}
    /\ csCall.op = "list_customer_orders" =>
          LET mine == {o \in DOMAIN db : db[o].customer_id = ctx.customer_id}
              r    == csCall.result
          IN  IF mine = {}
              THEN r.text = "No orders found for your account"
              ELSE /\ r.text = "Your orders"
                   /\ Len(r.lines) = Cardinality(mine)
                   /\ {r.lines[i].order_id : i \in 1..Len(r.lines)} = mine
                   /\ \A i \in 1..Len(r.lines) :
                         /\ r.lines[i].item = db[r.lines[i].order_id].item
                         /\ r.lines[i].price = Fmt2f(db[r.lines[i].order_id].price)
                         /\ r.lines[i].status = db[r.lines[i].order_id].status

\* lookup_order was called on an order of another customer.
C4_Witness ==
    /\ CalledOnForeignOrder("lookup_order")
    /\ csCall.result.text = "Order does not belong to your account"

\* C5: for a delivered order of the current customer calculate_refund
\* reports the refund as eligible for the full price, and as requiring
\* manager approval exactly when the price is above $50.
C5_ApprovalAboveFifty ==
    (CalledOnOwnOrder("calculate_refund")
        /\ db[csCall.order_id].status = "delivered") =>
        /\ csCall.result.text = "Refund eligible"
        /\ csCall.result.refund = Fmt2f(db[csCall.order_id].price)
        /\ csCall.result.approval_note = (db[csCall.order_id].price > 5000)

\* A delivered order of exactly $50 was found eligible with no approval.
C5_Witness ==
    /\ CalledOnOwnOrder("calculate_refund")
    /\ db[csCall.order_id].status = "delivered"
    /\ db[csCall.order_id].price = 5000
    /\ csCall.result.refund = <<50, 0>>
    /\ ~csCall.result.approval_note

\* C6: whenever calculate_refund grants a refund of more than $50, its
\* result says that manager approval is required.
C6_ApprovalForEveryStatus ==
    (CalledOnOwnOrder("calculate_refund")
        /\ csCall.result.text \in EligibleTexts
        /\ db[csCall.order_id].price > 5000) =>
        /\ "approval_note" \in DOMAIN csCall.result
        /\ csCall.result.approval_note

\* C7: process_refund reports a processed refund only for an order that
\* calculate_refund was called on before and found eligible.
C7_CalculatedBeforeProcessed ==
    (csCall.op = "process_refund"
        /\ csCall.result.text = "Refund processed successfully") =>
        csCall.order_id \in eligible

\* C8: for an order id that is missing or belongs to another customer
\* process_refund reports no processed refund and no amount.
C8_ProcessOwnOrdersOnly ==
    (csCall.op = "process_refund"
        /\ ~CalledOnOwnOrder("process_refund")) =>
        /\ csCall.result.text # "Refund processed successfully"
        /\ "amount" \notin DOMAIN csCall.result

\* C10: calculate_refund answers 'not found' for an unknown order id, and
\* for an order of the current customer by its status: processing, a
\* cancellation with the full price; shipped, the full price upon return
\* for a premium customer and else 'wait for delivery' with no amount;
\* delivered, an eligible refund of the full price; any other status,
\* 'Unable to process refund'.
C10_RefundByStatus ==
    csCall.op = "calculate_refund" =>
        LET r == csCall.result
            o == csCall.order_id
        IN  /\ o \notin DOMAIN db =>
                  r = [text |-> "Order not found", order_id |-> o]
            /\ CalledOnOwnOrder("calculate_refund") =>
                  CASE db[o].status = "processing" ->
                        /\ r.text = "can be cancelled for a full refund"
                        /\ r.refund = Fmt2f(db[o].price)
                    [] db[o].status = "shipped" ->
                        IF ctx.is_premium
                        THEN /\ r.text = "Premium customer: Eligible for full refund upon return"
                             /\ r.refund = Fmt2f(db[o].price)
                        ELSE /\ r.text = "Order in transit. Please wait for delivery"
                             /\ "refund" \notin DOMAIN r
                    [] db[o].status = "delivered" ->
                        /\ r.text = "Refund eligible"
                        /\ r.refund = Fmt2f(db[o].price)
                    [] OTHER ->
                        /\ r.text = "Unable to process refund"
                        /\ "refund" \notin DOMAIN r

\* A customer who is not premium asked for the refund of a shipped order.
C10_Witness ==
    /\ CalledOnOwnOrder("calculate_refund")
    /\ db[csCall.order_id].status = "shipped"
    /\ ~ctx.is_premium
    /\ csCall.result.text = "Order in transit. Please wait for delivery"

(***************************************************************************)
(* The guardrail and the chat handler: claims.                             *)
(***************************************************************************)
\* The refusals this call of on_message has sent.
Refusals == {i \in 1..Len(ui) : ui[i] = Refusal}

\* C9: the guardrail's tripwire is the detector's is_abusive; when the
\* tripwire aborts the run on_message has sent the refusal once and has
\* returned; the refusal is never sent for a message the detector has not
\* classified as abusive, and never twice.
C9_RefusedIffAbusive ==
    /\ GuardrailReturned =>
          guard.tripwire_triggered = guard.output_info.is_abusive
    /\ exc = "InputGuardrailTripwireTriggered" =>
          /\ mPc = "done"
          /\ Cardinality(Refusals) = 1
    /\ Refusals # {} =>
          /\ GuardrailReturned
          /\ guard.output_info.is_abusive
    /\ (GuardrailReturned /\ ~guard.output_info.is_abusive) => Refusals = {}
    /\ (GuardrailReturned /\ guard.output_info.is_abusive /\ mPc = "done") =>
          Cardinality(Refusals) = 1
    /\ Cardinality(Refusals) <= 1

\* An abusive message was refused and on_message has returned.
C9_Witness ==
    /\ exc = "InputGuardrailTripwireTriggered"
    /\ guard.output_info.is_abusive
    /\ mPc = "done"
    /\ ui[Len(ui)] = Refusal

\* The deltas of the text-delta events of a sequence of events, in order.
DeltasOf(events) ==
    LET texts == SelectSeq(events, IsTextDelta)
    IN  [i \in 1..Len(texts) |-> texts[i].data.delta]

\* The text the response message shows: nothing when there is no message.
Shown == IF msg = None THEN <<>> ELSE msg.content

\* The positions in the ui log of the operations on the response message.
Sends == {i \in 1..Len(ui) : ui[i] = SendResponse}

Updates == {i \in 1..Len(ui) : ui[i] = UpdateResponse}

Tokens == {i \in 1..Len(ui) : ui[i].op = "stream_token"}

\* The deltas streamed to the ui, in the order of the log.
Streamed ==
    LET toks == SelectSeq(ui, LAMBDA o : o.op = "stream_token")
    IN  [i \in 1..Len(toks) |-> toks[i].delta]

\* C12: after any prefix of the event stream, the text shown and the tokens
\* streamed are the deltas of the text-delta events of that prefix, in the
\* order received: none is dropped, doubled, held back or reordered.
C12_DeltasForwardedInOrder ==
    /\ Shown = DeltasOf(received)
    /\ Streamed = DeltasOf(received)

\* Two different deltas with another event between them were received and
\* the message shows them in that order.
C12_Witness ==
    /\ Len(received) = 3
    /\ IsTextDelta(received[1])
    /\ ~IsTextDelta(received[2])
    /\ IsTextDelta(received[3])
    /\ received[1].data.delta = "b"
    /\ received[3].data.delta = "a"
    /\ Shown = <<"b", "a">>

C15_LazyResponseMessage ==
    /\ Cardinality(Sends) <= 1
    /\ \A i \in Tokens : \E j \in Sends : j < i
    /\ (Sends # {}) = (DeltasOf(received) # <<>>)
    /\ (msg # None) = (Sends # {})

\* A call returned having sent one response message, after a tool step,
\* and streamed two tokens to it.
C15_Witness ==
    /\ mPc = "done"
    /\ exc = "none"
    /\ Len(ui) = 5
    /\ ui[1].op = "step.send"
    /\ ui[2] = SendResponse
    /\ ui[3].op = "stream_token"
    /\ ui[4].op = "stream_token"

\* C16: when the stream has ended without an exception and a response
\* message was opened, it has been finalized exactly once and after the
\* last token; no token is ever streamed after the message was finalized,
\* and a message is never finalized before the stream has ended.
C16_FinalizedOnceAtEnd ==
    /\ (mPc = "done" /\ exc = "none" /\ msg # None) =>
          /\ msg.updates = 1
          /\ Cardinality(Updates) = 1
          /\ ui[Len(ui)] = UpdateResponse
    /\ \A i \in Updates : \A j \in Tokens : j < i
    /\ mPc = "streaming" => Updates = {}
    /\ msg # None => msg.updates = Cardinality(Updates)

\* The stream ended after two tokens and the message was finalized.
C16_Witness ==
    /\ mPc = "done"
    /\ exc = "none"
    /\ msg # None
    /\ Len(msg.content) = 2
    /\ msg.updates = 1
    /\ ui[Len(ui)] = UpdateResponse
    /\ ui[Len(ui) - 1].op = "stream_token"

(***************************************************************************)
(* The data, content and research tools: claims.                           *)
(***************************************************************************)
\* The last call was a call of the tool op.
ToolCalledOp(op) == tlCall.op = op

\* A read or a write of the last call failed, or its file was missing.
IoFailed ==
    \E i \in 1..Len(tlCall.io) : tlCall.io[i].result # "ok"

\* The value is an error result: it has the key "error", or it is the
\* string that starts with "Error saving notes".
IsErrorResult(v) ==
    \/ "error" \in DOMAIN v
    \/ "text" \in DOMAIN v /\ v.text = "Error saving notes"

\* The value says the call has done its work.
MarkedSuccess(v) ==
    \/ "success" \in DOMAIN v /\ v.success
    \/ "text" \in DOMAIN v /\ v.text = "Successfully saved research notes to"

\* C13: a call of a file tool returns and never raises, and when a read or
\* a write of the call failed it returns an error result, never one marked
\* as success.
C13_FailuresAreValues ==
    ~ToolCalledOp("none") =>
        /\ tlCall.outcome.kind = "return"
        /\ IoFailed =>
              /\ IsErrorResult(tlCall.outcome.value)
              /\ ~MarkedSuccess(tlCall.outcome.value)

\* The third write of save_content_package failed for want of space and
\* the call returned the error.
C13_Witness ==
    /\ ToolCalledOp("save_content_package")
    /\ Len(tlCall.io) = 4
    /\ tlCall.io[4].op = "write"
    /\ tlCall.io[4].result = "OSError"
    /\ tlCall.outcome = Return(JsonError("Error saving content", "OSError"))

\* The report of the last call of detect_anomalies, when it made one.
Reported ==
    /\ ToolCalledOp("detect_anomalies")
    /\ tlCall.outcome.kind = "return"
    /\ "anomalies" \in DOMAIN tlCall.outcome.value

OutlierReports ==
    {i \in 1..Len(tlCall.outcome.value.anomalies) :
        tlCall.outcome.value.anomalies[i].type = "outliers"}

\* The rows of a column that hold a value strictly below Q1 - 1.5 * IQR
\* or strictly above Q3 + 1.5 * IQR, the quartiles taken over the values
\* that are not missing.  With IQR = Q3 - Q1 the bounds are
\* (5 * Q1 - 3 * Q3) / 2 and (5 * Q3 - 3 * Q1) / 2.
StrictOutliers(col) ==
    LET Q1x4 == Quantile4(DropNa(col), 1)
        Q3x4 == Quantile4(DropNa(col), 3)
    IN  {i \in 1..Len(col) :
            /\ col[i] # NaN
            /\ \/ 8 * col[i] < 5 * Q1x4 - 3 * Q3x4
               \/ 8 * col[i] > 5 * Q3x4 - 3 * Q1x4}

\* C17: an 'outliers' anomaly names a column of the data with at least 10
\* values; it counts the rows strictly outside the IQR bounds, of which
\* there is at least one; its severity is 'low' below 5 outliers and
\* 'medium' from 5 on; it lists at most 10 indices, the first outlier rows.
C17_IqrOutliers ==
    Reported =>
        \A i \in OutlierReports :
            LET a == tlCall.outcome.value.anomalies[i]
            IN  /\ a.location \in ColumnSet(frame)
                /\ Cardinality({r \in 1..RowCount(frame) :
                                   frame.data[a.location][r] # NaN}) >= 10
                /\ a.count = Cardinality(StrictOutliers(frame.data[a.location]))
                /\ a.count >= 1
                /\ a.severity = (IF a.count < 5 THEN "low" ELSE "medium")
                /\ Len(a.outlier_indices) <= 10
                /\ Len(a.outlier_indices) = (IF a.count < 10 THEN a.count ELSE 10)
                /\ \A j \in 1..Len(a.outlier_indices) :
                      /\ a.outlier_indices[j] + 1
                            \in StrictOutliers(frame.data[a.location])
                      /\ Cardinality({r \in StrictOutliers(frame.data[a.location]) :
                                         r < a.outlier_indices[j] + 1}) = j - 1

\* Column x has 12 outliers: the report is of severity medium and lists
\* the first 10 of them.
C17_Witness ==
    /\ Reported
    /\ \E i \in OutlierReports :
          LET a == tlCall.outcome.value.anomalies[i]
          IN  /\ a.location = ColX
              /\ a.count = 12
              /\ a.severity = "medium"
              /\ Len(a.outlier_indices) = 10

\* The last call of save_content_package returned success.
PackageSaved ==
    /\ ToolCalledOp("save_content_package")
    /\ tlCall.outcome.kind = "return"
    /\ "success" \in DOMAIN tlCall.outcome.value

\* The ends of the five file names, in the order of the claim.
PackageSuffixes ==
    <<<<"_", "y", "o", "u", "t", "u", "b", "e", ".", "t", "x", "t">>, <<"_", "s", "h", "o", "r", "t", "f", "o", "r", "m", ".", "t", "x", "t">>, <<"_", "n", "e", "w", "s", "l", "e", "t", "t", "e", "r", ".", "t", "x", "t">>, <<"_", "t", "i", "t", "l", "e", "s", ".", "t", "x", "t">>,
      <<"_", "C", "O", "M", "P", "L", "E", "T", "E", ".", "m", "d">>>>

\* <sanitized name>_<date>: the first 30 characters of the package name,
\* each character that is no letter, digit, "-" or "_" made "_", and the
\* date of the call.
SharedBaseName ==
    LET name == tlCall.args.package_name
        n == IF Len(name) < 30 THEN Len(name) ELSE 30
    IN  [i \in 1..n |->
            IF IsAlnum(name[i]) \/ name[i] \in {"-", "_"} THEN name[i] ELSE "_"]
        \o <<"_">> \o DateFormat(tlCall.args.day)

\* C18: on success save_content_package has written five files, in
\* output_dir and with one base name: youtube, shortform, newsletter,
\* titles and the master file last; files_created is 5, files lists the
\* five paths in that order and master_file is the last of them.
C18_FivePackageFiles ==
    PackageSaved =>
        LET v == tlCall.outcome.value
            writes == SelectSeq(tlCall.io, LAMBDA e : e.op = "write")
        IN  /\ v.success
            /\ Len(writes) = 5
            /\ v.files_created = 5
            /\ Len(v.files) = 5
            /\ \A i \in 1..5 :
                  /\ writes[i].result = "ok"
                  /\ writes[i].path = v.files[i]
                  /\ v.files[i] =
                        v.output_dir \o <<"/">> \o SharedBaseName
                            \o PackageSuffixes[i]
                  /\ v.files[i] \in disk
            /\ writes[5].content = "master"
            /\ v.master_file = v.files[5]
            /\ Cardinality({v.files[i] : i \in 1..5}) = 5

\* The package "a/b" was saved on day 1: its files are named a_b_20261101.
C18_Witness ==
    /\ PackageSaved
    /\ tlCall.args.package_name = <<"a", "/", "b">>
    /\ tlCall.outcome.value.files[1] = <<"/", "h", "o", "m", "e", "/", "u", "/", "o", "u", "t", "/", "a", "_", "b", "_", "2", "0", "2", "6", "1", "1", "0", "1", "_", "y", "o", "u", "t", "u", "b", "e", ".", "t", "x", "t">>
    /\ tlCall.outcome.value.master_file = <<"/", "h", "o", "m", "e", "/", "u", "/", "o", "u", "t", "/", "a", "_", "b", "_", "2", "0", "2", "6", "1", "1", "0", "1", "_", "C", "O", "M", "P", "L", "E", "T", "E", ".", "m", "d">>

====
